---- MODULE Spec2Model ----
(***************************************************************************)
(* Branch-lifecycle orchestration of the Lakebase branching notebooks:     *)
(* 00_Setup_Project (project, production connection, connect_to_branch),   *)
(* the scenario notebooks 01..05 and 99_Cleanup, run one after another     *)
(* against the managed service (projects, branches, endpoints,             *)
(* credentials), whose answers are the environment's choices.              *)
(***************************************************************************)
EXTENDS Integers, Sequences, FiniteSets, TLC

(* ------------------------------ bounds --------------------------------- *)
\* notebook runs started in one behaviour
MaxRuns == 2
\* failures the environment injects into external calls in one behaviour
MaxFaults == 1
\* endpoints (primary plus read replicas) a branch may have been given
\* before connect_to_branch is called on it directly
MaxEndpoints == 2
\* polling rounds after which an endpoint that is still being provisioned
\* no longer appears
MaxLatePolls == 3
\* largest wait_seconds the direct callers of connect_to_branch pass
MaxWait == 31
\* direct calls of connect_to_branch in one behaviour of SpecCB
MaxCalls == 2

\* for i in range(100): customers.append(...)
SeedCustomers == 100
\* DELETE FROM customers WHERE id > 50
KeptCustomers == 50
\* categories: 5 categories of 10 products
SeedProducts == 50

(* ------------------------- program constants --------------------------- *)
\* time.sleep(10) and wait_seconds // 10 in connect_to_branch
PollInterval == 10
\* def connect_to_branch(branch_id, wait_seconds=300)
DefaultWait == 300
\* for i in range(30) in setup's endpoint wait
SetupPolls == 30

Notebooks == {"00", "01", "02", "03", "04", "05", "99"}
Scenarios == {"01", "02", "03", "04", "05"}

\* branch ids the notebooks name, and the names the service may give the
\* default branch of a new project
DefaultNames == {"production", "main"}
ScenarioBranches ==
    {"dev-readonly", "feature-loyalty-tier", "feature-order-priority",
     "feature-order-priority-v2", "recovery-branch",
     "ci-pr-42", "ci-pr-43", "ci-pr-44"}
BranchIds == DefaultNames \cup ScenarioBranches

\* the order list_branches returns branches in
BranchOrder ==
    <<"production", "main", "dev-readonly", "feature-loyalty-tier",
      "feature-order-priority", "feature-order-priority-v2",
      "recovery-branch", "ci-pr-42", "ci-pr-43", "ci-pr-44">>

\* connection variables of a notebook's Python process
ConnVars == {"conn", "dev_conn", "feature_conn", "feature_conn_v2",
             "recovery_conn", "branch_conn"}

VARIABLES
    projectExists,  \* service: the project projects/<project_name> exists
    branches,       \* service: set of branch records of the project
    epCount,        \* service: number of endpoints of each branch id
    data,           \* service: the committed versions of each branch's database
    minted,         \* service: number of credentials minted so far
    created,        \* service: branches created so far under each id
    now,            \* logical time
    runs,           \* notebook runs started
    faults,         \* failures injected so far
    nb,             \* the notebook being run ("none": no run in progress)
    pc,             \* position in setup / cleanup ("scenario": see ip)
    ip,             \* index of the next statement of the scenario
    unskip,         \* the user removed %skip from the cleanup cell
    g,              \* Python globals of the running notebook
    bind,           \* connection variable -> connection id (0: unbound)
    conns,          \* every connection ever opened, by id
    su,             \* locals of setup's endpoint wait
    cb,             \* frame of connect_to_branch
    cl,             \* locals of the cleanup notebook
    err,            \* the exception that ended the last run, if any
    xlog,           \* the last two external calls
    lastDel,        \* the last delete_branch call and its outcome
    lastCreate,     \* the last create_branch call and its outcome
    preDel,         \* this run's pre-create cleanup answer, per branch id
    calls,          \* direct calls of connect_to_branch (SpecCB)
    busy,           \* service: the operation in progress on each resource
    pend,           \* service: records of the branches being created
    waiting         \* the resource whose operation .wait() is blocked on

vars == <<projectExists, branches, epCount, data, minted, created, now, runs,
          faults, nb, pc, ip, unskip, g, bind, conns, su, cb, cl, err, xlog,
          lastDel, lastCreate, preDel, calls, busy, pend, waiting>>

svcVars == <<projectExists, branches, epCount, data>>
opVars == <<busy, pend, waiting>>

\* what a long-running operation of the service works on
Resources == BranchIds \cup {"project"}
NoBusy == [r \in Resources |-> ""]

(* --------------------------- the service ------------------------------- *)
NoEp == [name |-> <<>>, host |-> <<>>]
Endpoint(b, k) == [name |-> <<b, "ep", k>>, host |-> <<b, "host", k>>]

\* list(w.postgres.list_endpoints(parent=...)) for a branch with n endpoints
EndpointList(b, n) == [k \in 1..n |-> Endpoint(b, k)]

BranchAlive(b) == \E r \in branches : r.id = b
DefaultBranches == {r \in branches : r.default}
IsDefaultId(b) == \E r \in branches : r.id = b /\ r.default

\* variant: the caller provisions an endpoint where it finds none
ProvisionOnDemand(b, polls) == {1}

\* What a listing of branch b can observe after `polls` rounds of waiting:
\* the primary endpoint of a branch is provisioned asynchronously, so a
\* branch without endpoints may have got it by the time of the call.
EndpointCounts(b, polls) ==
    IF ~BranchAlive(b) THEN {0}
    ELSE IF epCount[b] > 0 THEN {epCount[b]}
    ELSE IF polls <= MaxLatePolls THEN {0, 1}
    ELSE {0}

CanFault == faults < MaxFaults

\* the service's answer to delete_branch(name=b).wait()
DeleteResponses(b) ==
    IF ~projectExists \/ ~BranchAlive(b) THEN {"not_found"}
    ELSE IF IsDefaultId(b) THEN {"denied"}
    ELSE {"ok"} \cup (IF CanFault THEN {"denied"} ELSE {})

\* the service's answer to create_branch(..., branch_id=b).wait()
CreateResponses(b, src) ==
    IF ~projectExists THEN {"not_found"}
    ELSE IF BranchAlive(b) THEN {"already_exists"}
    ELSE IF ~BranchAlive(src) THEN {"not_found"}
    ELSE {"ok"} \cup (IF CanFault THEN {"error"} ELSE {})

BranchRecord(b, src, time, ttl, n) ==
    [id |-> b, source |-> src, time |-> time, ttl |-> ttl,
     default |-> FALSE, by |-> n]

(* ------------------------- branch databases ---------------------------- *)
\* What the scenarios read of a database: whether the seeded tables exist,
\* the number of rows of customers, and the columns added to the seeded
\* tables by migrations.
NoTables == [tables |-> FALSE, customers |-> 0, cols |-> {},
             hiOrders |-> FALSE, hiItems |-> FALSE]

\* DROP TABLE IF EXISTS ... CASCADE; CREATE TABLE ...; 100 customers
\* hiOrders: orders of customers with id > 50 exist; hiItems: order_items of
\* those orders exist (both hold for the rows generated under random.seed(42))
Seeded == [tables |-> TRUE, customers |-> SeedCustomers, cols |-> {},
           hiOrders |-> TRUE, hiItems |-> TRUE]

NoData == [b \in BranchIds |-> <<>>]

\* the current contents of branch b
Db(b) == data[b][Len(data[b])].d

\* the contents of branch b as committed up to time t
AsOf(b, t) ==
    LET upto == SelectSeq(data[b], LAMBDA v : v.t <= t) IN
    IF upto = <<>> THEN NoTables ELSE upto[Len(upto)].d

\* variant: a new branch starts from the seeded tables, without the changes
\* made on the source branch since
SnapshotOfSeed(src, time) == Seeded

\* the contents a new branch starts from: the source branch now, or as of
\* source_branch_time when one is given
Snapshot(src, time) == IF time = 0 THEN Db(src) ELSE AsOf(src, time)

\* a committed write on branch b (autocommit): one version per instant
Written(b, d) ==
    LET h == data[b] IN
    [data EXCEPT ![b] =
        IF h # <<>> /\ h[Len(h)].t = now
        THEN [h EXCEPT ![Len(h)] = [t |-> now, d |-> d]]
        ELSE Append(h, [t |-> now, d |-> d])]

(* ---------------------------- connections ------------------------------ *)
NewConn(owner, b, host, token, helper) ==
    [owner |-> owner, branch |-> b, host |-> host, token |-> token,
     mintedAt |-> minted, open |-> TRUE, autocommit |-> FALSE,
     helper |-> helper]

\* connection.close(): the notebooks call it only on a connection that is
\* open (01:172, 02:266, 03:301-302, 04:275, 05:195), which it closes. The
\* method is psycopg2's and its code is not among the notebooks; what it does
\* on a connection that is already closed is left open here: it returns or
\* raises.
CloseOutcomes(c) == IF c.open THEN {"closed"} ELSE {"closed", "raised"}

\* the connection after close()
Closed(c) == [c EXCEPT !.open = FALSE]

\* a session returned by connect_to_branch(b) that has not been closed
OpenSession(b) ==
    \E i \in DOMAIN conns :
        conns[i].helper /\ conns[i].branch = b /\ conns[i].open

Log(call) == <<xlog[2], call>>

(* ------------------------------ frames --------------------------------- *)
Error(type, b, waited, cause) ==
    [type |-> type, branch |-> b, waited |-> waited, cause |-> cause]
NoErr == Error("", "", 0, "")
\* the scenarios' variables that hold a query result; -1: not assigned
ValNames == {"branch_count", "main_count", "before_count", "after_count",
             "recovery_count", "prod_count", "deleted_customers",
             "final_count", "test_result"}
NoVals == [v \in ValNames |-> -1]
NoGlobals ==
    [prod_branch_name |-> "", prod_endpoint |-> NoEp, db_token |-> 0,
     helper |-> FALSE, safe_timestamp |-> 0, results |-> <<>>,
     vals |-> NoVals, prod_columns |-> {}, deleted_orders |-> FALSE,
     deleted_items |-> FALSE]
NoBind == [v \in ConnVars |-> 0]
SuIdle == [endpoints |-> <<>>, i |-> 0]
CbIdle ==
    [pc |-> "idle", branch_id |-> "", wait_seconds |-> 0, endpoints |-> <<>>,
     i |-> 0, slept |-> 0, listings |-> 0, firstEmpty |-> FALSE,
     allEmpty |-> TRUE, ep |-> NoEp, token |-> 0, mints |-> 0,
     connects |-> 0, conn |-> 0, seen |-> 0, ret |-> <<>>, error |-> NoErr,
     mintedFor |-> <<>>]
ClIdle == [todo |-> <<>>, deleted |-> 0, skipped |-> 0, metDefault |-> FALSE,
           delete_project |-> FALSE, listed |-> <<>>, issued |-> <<>>,
           flagged |-> {}, failed |-> 0, projCalls |-> 0]
NoDel == [branch |-> "", kind |-> "", resp |-> "", openSession |-> FALSE,
          onDefault |-> FALSE, flagged |-> FALSE, surfaced |-> FALSE,
          reported |-> ""]
NoCreate == [id |-> "", source |-> "", time |-> 0, ttl |-> 0, resp |-> "",
             by |-> 0]
NoPreDel == [b \in BranchIds |-> ""]

Init ==
    /\ projectExists = FALSE
    /\ branches = {}
    /\ epCount = [b \in BranchIds |-> 0]
    /\ data = NoData
    /\ minted = 0
    /\ created = [b \in BranchIds |-> 0]
    /\ now = 0
    /\ runs = 0
    /\ faults = 0
    /\ nb = "none"
    /\ pc = "idle"
    /\ ip = 0
    /\ unskip = FALSE
    /\ g = NoGlobals
    /\ bind = NoBind
    /\ conns = <<>>
    /\ su = SuIdle
    /\ cb = CbIdle
    /\ cl = ClIdle
    /\ err = NoErr
    /\ xlog = <<"", "">>
    /\ lastDel = NoDel
    /\ lastCreate = NoCreate
    /\ preDel = NoPreDel
    /\ calls = 0
    /\ busy = NoBusy
    /\ pend = {}
    /\ waiting = ""

(* ---------------------- long-running operations ----------------------- *)
\* variant: the operation is started and not waited for
NoWait == FALSE

\* every create_project, create_branch, delete_branch and delete_project
\* call of the notebooks ends in .wait()
Waits == TRUE

\* .wait() returns once the operation has finished
WaitOver(r) == Waits => busy[r] = ""

\* the service finishes the operation in progress on r
SvcComplete(r) ==
    /\ busy[r] # ""
    /\ IF r = "project"
       THEN /\ projectExists' = (busy[r] = "creating")
            /\ IF busy[r] = "creating"
               THEN \E d \in DefaultNames :
                       /\ branches' = {[id |-> d, source |-> "", time |-> 0,
                                        ttl |-> 0, default |-> TRUE,
                                        by |-> 0]}
                       /\ data' = [NoData EXCEPT
                                     ![d] = <<[t |-> now, d |-> NoTables]>>]
               ELSE /\ branches' = {}
                    /\ data' = NoData
            /\ epCount' = [b \in BranchIds |-> 0]
            /\ pend' = {}
       ELSE /\ branches' = IF busy[r] = "creating"
                           THEN branches \cup {x \in pend : x.id = r}
                           ELSE {x \in branches : x.id # r}
            /\ data' = [data EXCEPT ![r] =
                          IF busy[r] = "creating"
                          THEN LET x == CHOOSE y \in pend : y.id = r IN
                               <<[t |-> now, d |-> Snapshot(x.source, x.time)]>>
                          ELSE <<>>]
            /\ pend' = {x \in pend : x.id # r}
            /\ epCount' = [epCount EXCEPT ![r] = 0]
            /\ UNCHANGED projectExists
    /\ busy' = [busy EXCEPT ![r] = ""]
    /\ UNCHANGED <<minted, created, now, runs, faults, nb, pc, ip, unskip, g,
                   bind, conns, su, cb, cl, err, xlog, lastDel, lastCreate,
                   preDel, calls, waiting>>

(* --------------------------- control flow ------------------------------ *)
\* an exception leaves the cell: the run stops, the process keeps its state
Abort(e) == /\ nb' = "none" /\ pc' = "idle" /\ ip' = 0 /\ err' = e
Goto(p) == /\ pc' = p /\ UNCHANGED <<nb, ip, err>>
EndRun == /\ nb' = "none" /\ pc' = "idle" /\ ip' = 0 /\ UNCHANGED err

\* outcomes of an external call that either succeeds or raises
Outcomes == {"ok"} \cup (IF CanFault THEN {"fail"} ELSE {})
Count(r) ==
    faults' = IF r \in {"fail", "denied", "error", "unflagged"}
              THEN faults + 1 ELSE faults

\* outcomes of list_branches: the records carry their status, or come
\* without one (b.status is None), or the call raises
ListingOutcomes == Outcomes \cup (IF CanFault THEN {"unflagged"} ELSE {})

\* list(w.postgres.list_branches(parent=...)): the ids, in the service's order
ListBranches == SelectSeq(BranchOrder, BranchAlive)

\* next((b for b in branches if b.status and b.status.default), branches[0])
ProdBranch(listing, shown) ==
    IF shown /\ \E k \in DOMAIN listing : IsDefaultId(listing[k])
    THEN listing[CHOOSE k \in DOMAIN listing :
                    /\ IsDefaultId(listing[k])
                    /\ \A j \in 1..(k - 1) : ~IsDefaultId(listing[j])]
    ELSE listing[1]

\* DELETE_PROJECT = False, unless the user edits the cell
DELETE_PROJECT == FALSE

\* the user starts a notebook; %skip and DELETE_PROJECT are the user's edits
StartRun(n, u, dp) ==
    /\ nb = "none"
    /\ runs < MaxRuns
    /\ nb' = n
    /\ pc' = "restart"
    /\ ip' = 0
    /\ runs' = runs + 1
    /\ now' = now + 1
    /\ unskip' = u
    /\ cl' = [ClIdle EXCEPT !.delete_project = dp]
    /\ err' = NoErr
    /\ preDel' = NoPreDel
    /\ UNCHANGED <<svcVars, minted, created, faults, g, bind, conns, su, cb,
                   xlog, lastDel, lastCreate, calls, opVars>>

\* dbutils.library.restartPython(): the notebook's process is replaced, its
\* variables are gone and its connections end with it
Restart ==
    /\ nb \in Notebooks
    /\ pc = "restart"
    /\ conns' = [i \in DOMAIN conns |->
                    IF conns[i].owner = nb
                    THEN [conns[i] EXCEPT !.open = FALSE]
                    ELSE conns[i]]
    /\ g' = NoGlobals
    /\ bind' = NoBind
    /\ su' = SuIdle
    /\ cb' = CbIdle
    /\ Goto("current_user")
    /\ UNCHANGED <<svcVars, minted, created, now, runs, faults, unskip, cl,
                   xlog, lastDel, lastCreate, preDel, calls, opVars>>

\* w = WorkspaceClient(); current_user = w.current_user.me(): the first
\* external call of 00 and of 99, outside any try
CurrentUser ==
    /\ nb \in Notebooks
    /\ pc = "current_user"
    /\ \E r \in Outcomes :
        /\ Count(r)
        /\ IF r = "ok"
           THEN Goto(IF nb = "99" THEN "cl_list" ELSE "list_projects")
           ELSE Abort(Error("ServiceError", "", 0, "current_user.me"))
    /\ xlog' = Log("current_user")
    /\ UNCHANGED <<svcVars, minted, created, now, runs, unskip, g, bind,
                   conns, su, cb, cl, lastDel, lastCreate, preDel, calls,
                   opVars>>

(* ------------------------- 00_Setup_Project ---------------------------- *)
\* variant: the listing is not consulted
ProjectNeverListed == FALSE

\* project_exists = any(p.name == f"projects/{project_name}" for p in ...)
ProjectListed == projectExists

\* existing_projects = list(w.postgres.list_projects()); if project_exists:
SuListProjects ==
    /\ pc = "list_projects"
    /\ \E r \in Outcomes :
        /\ Count(r)
        /\ IF r = "ok"
           THEN Goto(IF ProjectListed THEN "lookup_project" ELSE "create_project")
           ELSE Abort(Error("ServiceError", "", 0, "list_projects"))
    /\ xlog' = Log("list_projects")
    /\ UNCHANGED <<svcVars, minted, created, now, runs, unskip, g, bind,
                   conns, su, cb, cl, lastDel, lastCreate, preDel, calls, opVars>>

SuCreateProject ==
    /\ pc = "create_project"
    /\ \E r \in Outcomes :
        /\ Count(r)
        /\ IF r = "ok"
           THEN /\ busy' = [busy EXCEPT !["project"] = "creating"]
                /\ waiting' = "project"
                /\ Goto("wait_project")
           ELSE /\ Abort(Error("ServiceError", "", 0, "create_project"))
                /\ UNCHANGED <<busy, waiting>>
    /\ xlog' = Log("create_project")
    /\ UNCHANGED <<svcVars, minted, created, now, runs, unskip, g, bind,
                   conns, su, cb, cl, lastDel, lastCreate, preDel, calls,
                   pend>>

\* ).wait() of create_project
SuWaitProject ==
    /\ pc = "wait_project"
    /\ WaitOver("project")
    /\ waiting' = ""
    /\ Goto("lookup_project")
    /\ UNCHANGED <<svcVars, minted, created, now, runs, faults, unskip, g,
                   bind, conns, su, cb, cl, xlog, lastDel, lastCreate, preDel,
                   calls, busy, pend>>

\* project_obj = next(p for p in w.postgres.list_projects() if ...)
SuLookupProject ==
    /\ pc = "lookup_project"
    /\ \E r \in Outcomes :
        /\ Count(r)
        /\ IF r # "ok"
           THEN Abort(Error("ServiceError", "", 0, "list_projects"))
           ELSE IF projectExists
           THEN Goto("list_branches")
           ELSE Abort(Error("StopIteration", "", 0, "project_obj"))
    /\ xlog' = Log("list_projects")
    /\ UNCHANGED <<svcVars, minted, created, now, runs, unskip, g,
                   bind, conns, su, cb, cl, lastDel, lastCreate, preDel, calls, opVars>>

\* branches = list(w.postgres.list_branches(...)); prod_branch = next(...)
SuListBranches ==
    /\ pc = "list_branches"
    /\ \E r \in ListingOutcomes :
        /\ Count(r)
        /\ IF r = "fail"
           THEN /\ Abort(Error("ServiceError", "", 0, "list_branches"))
                /\ UNCHANGED g
           ELSE IF ListBranches = <<>>
           THEN /\ Abort(Error("IndexError", "", 0, "branches[0]"))
                /\ UNCHANGED g
           ELSE /\ g' = [g EXCEPT !.prod_branch_name =
                                     ProdBranch(ListBranches, r = "ok")]
                /\ Goto("su_list")
    /\ xlog' = Log("list_branches")
    /\ UNCHANGED <<svcVars, minted, created, now, runs, unskip, bind,
                   conns, su, cb, cl, lastDel, lastCreate, preDel, calls, opVars>>

SuListEndpoints ==
    /\ pc = "su_list"
    /\ \E r \in Outcomes :
        /\ Count(r)
        /\ IF r = "ok"
           THEN \E n \in EndpointCounts(g.prod_branch_name, 0) :
                  /\ epCount' = [epCount EXCEPT ![g.prod_branch_name] = n]
                  /\ su' = [endpoints |-> EndpointList(g.prod_branch_name, n),
                            i |-> 0]
                  /\ Goto(IF n = 0 THEN "su_poll" ELSE "su_check")
           ELSE /\ Abort(Error("ServiceError", g.prod_branch_name, 0,
                               "list_endpoints"))
                /\ UNCHANGED <<epCount, su>>
    /\ xlog' = Log("list_endpoints")
    /\ UNCHANGED <<projectExists, branches, data, minted, created, now, runs,
                   unskip, g, bind, conns, cb, cl, lastDel, lastCreate, preDel, calls, opVars>>

\* one round of: time.sleep(10); list_endpoints; break if any
SuPoll ==
    /\ pc = "su_poll"
    /\ su.i < SetupPolls
    /\ \E r \in Outcomes :
        /\ Count(r)
        /\ IF r = "ok"
           THEN \E n \in EndpointCounts(g.prod_branch_name, su.i + 1) :
                  /\ epCount' = [epCount EXCEPT ![g.prod_branch_name] = n]
                  /\ su' = [endpoints |-> EndpointList(g.prod_branch_name, n),
                            i |-> su.i + 1]
                  /\ Goto(IF n > 0 \/ su.i + 1 = SetupPolls
                          THEN "su_check" ELSE "su_poll")
           ELSE /\ Abort(Error("ServiceError", g.prod_branch_name, 0,
                               "list_endpoints"))
                /\ UNCHANGED <<epCount, su>>
    /\ xlog' = Log("list_endpoints")
    /\ UNCHANGED <<projectExists, branches, data, minted, created, now, runs,
                   unskip, g, bind, conns, cb, cl, lastDel, lastCreate, preDel, calls, opVars>>

SuCheck ==
    /\ pc = "su_check"
    /\ IF su.endpoints # <<>>
       THEN /\ g' = [g EXCEPT !.prod_endpoint = su.endpoints[1]]
            /\ Goto("su_mint")
       ELSE /\ Abort(Error("NoEndpoint", g.prod_branch_name,
                           SetupPolls * PollInterval, ""))
            /\ UNCHANGED g
    /\ UNCHANGED <<svcVars, minted, created, now, runs, faults, unskip, bind,
                   conns, su, cb, cl, xlog, lastDel, lastCreate, preDel, calls, opVars>>

\* cred = w.postgres.generate_database_credential(endpoint=prod_endpoint_name)
SuMint ==
    /\ pc = "su_mint"
    /\ \E r \in Outcomes :
        /\ Count(r)
        /\ IF r = "ok"
           THEN /\ minted' = minted + 1
                /\ g' = [g EXCEPT !.db_token = minted + 1]
                /\ Goto("su_connect")
           ELSE /\ Abort(Error("CredentialError", g.prod_branch_name, 0,
                               "generate_database_credential"))
                /\ UNCHANGED <<minted, g>>
    /\ xlog' = Log("mint")
    /\ UNCHANGED <<svcVars, created, now, runs, unskip, bind, conns, su, cb,
                   cl, lastDel, lastCreate, preDel, calls, opVars>>

\* conn = psycopg2.connect(..., password=db_token); conn.autocommit = True
SuConnect ==
    /\ pc = "su_connect"
    /\ \E r \in Outcomes :
        /\ Count(r)
        /\ IF r = "ok"
           THEN /\ conns' = Append(conns,
                     [NewConn(nb, g.prod_branch_name, g.prod_endpoint.host,
                              g.db_token, FALSE) EXCEPT !.autocommit = TRUE])
                /\ bind' = [bind EXCEPT !["conn"] = Len(conns) + 1]
                /\ Goto("su_seed")
           ELSE /\ Abort(Error("ConnectionError", g.prod_branch_name, 0,
                               "psycopg2.connect"))
                /\ UNCHANGED <<conns, bind>>
    /\ xlog' = Log("connect")
    /\ UNCHANGED <<svcVars, minted, created, now, runs, unskip, g, su, cb, cl,
                   lastDel, lastCreate, preDel, calls, opVars>>

\* variant: CREATE TABLE IF NOT EXISTS, the tables are not dropped first
SeedKeepsTables(d) == IF d.tables THEN d ELSE Seeded

\* SEED_SCHEMA_SQL and the inserts: the tables are dropped, created and
\* filled again
Seed(d) == Seeded

\* the statements of Steps 4-6 on conn, in the order they are executed
SeedSteps == <<"schema", "customers", "products", "orders", "order_items",
               "totals", "verify">>

\* The databases statement k of SeedSteps can leave when it raises. Every
\* statement before it is committed (conn.autocommit = True). SEED_SCHEMA_SQL
\* is one execute and all or nothing; an executemany is one INSERT per row,
\* each committed, so it can stop after any number of rows short of all.
\* orders.customer_id is random.randint(1, 100): whether the orders inserted
\* so far include one of a customer with id > 50 is open, and so for the
\* order_items of such an order.
SeededBefore(k, d) ==
    CASE SeedSteps[k] = "schema" -> {d}
      [] SeedSteps[k] = "customers" ->
            {[Seed(d) EXCEPT !.customers = n, !.hiOrders = FALSE,
                             !.hiItems = FALSE] : n \in 0 .. (SeedCustomers - 1)}
      [] SeedSteps[k] = "products" ->
            {[Seed(d) EXCEPT !.hiOrders = FALSE, !.hiItems = FALSE]}
      [] SeedSteps[k] = "orders" ->
            {[Seed(d) EXCEPT !.hiOrders = o, !.hiItems = FALSE] :
                o \in BOOLEAN}
      [] SeedSteps[k] = "order_items" ->
            {[Seed(d) EXCEPT !.hiItems = h] : h \in BOOLEAN}
      [] OTHER -> {Seed(d)}

\* Steps 4-6: schema, sample data, verification, all on conn. The versions
\* before the seed are not kept: every source_branch_time of a run is taken
\* after that run's seed.
SuSeed ==
    /\ pc = "su_seed"
    /\ \E r \in Outcomes :
        /\ Count(r)
        /\ IF r = "ok"
           THEN /\ Goto("su_helper")
                /\ data' = [data EXCEPT ![g.prod_branch_name] =
                              <<[t |-> now,
                                 d |-> Seed(Db(g.prod_branch_name))]>>]
           ELSE /\ \E k \in DOMAIN SeedSteps :
                   \E d \in SeededBefore(k, Db(g.prod_branch_name)) :
                     /\ Abort(Error("DatabaseError", g.prod_branch_name, 0,
                                     SeedSteps[k]))
                     /\ data' =
                          IF k = 1 THEN data
                          ELSE [data EXCEPT ![g.prod_branch_name] =
                                  <<[t |-> now, d |-> d]>>]
    /\ xlog' = Log("sql")
    /\ UNCHANGED <<projectExists, branches, epCount, minted, created, now, runs, unskip, g, bind,
                   conns, su, cb, cl, lastDel, lastCreate, preDel, calls, opVars>>

\* def connect_to_branch(...): the helper exists from here on; notebook 00
\* ends, a scenario goes on with its own cells
SuDefineHelper ==
    /\ pc = "su_helper"
    /\ g' = [g EXCEPT !.helper = TRUE]
    /\ IF nb = "00"
       THEN EndRun
       ELSE /\ pc' = "scenario" /\ ip' = 1 /\ UNCHANGED <<nb, err>>
    /\ UNCHANGED <<svcVars, minted, created, now, runs, faults, unskip, bind,
                   conns, su, cb, cl, xlog, lastDel, lastCreate, preDel, calls, opVars>>

(* ------------------------- connect_to_branch --------------------------- *)
\* variant: the emptiness test always sends the caller into the wait
AlwaysWait(eps) == TRUE

\* if not endpoints:
NoEndpoints(eps) == eps = <<>>

\* variant: one polling round too many, range(wait_seconds // 10 + 1)
PollRoundsInclusive(wait_seconds) == wait_seconds \div PollInterval + 1

\* range(wait_seconds // 10)
PollRounds(wait_seconds) == wait_seconds \div PollInterval

\* variant: the loop goes on after a listing that found an endpoint
NeverBreaks(eps) == FALSE

\* if endpoints: break
Breaks(eps) == eps # <<>>

\* variant: no check after the wait, the endpoint name is assumed
ResolveUnchecked(b, wait_seconds, eps) ==
    [raise |-> FALSE,
     ep |-> IF eps = <<>> THEN Endpoint(b, 1) ELSE eps[1],
     error |-> NoErr]

\* if not endpoints: raise Exception(...)   /   ep = endpoints[0]
Resolve(b, wait_seconds, eps) ==
    IF NoEndpoints(eps)
    THEN [raise |-> TRUE, ep |-> NoEp,
          error |-> Error("NoEndpoint", b, wait_seconds, "")]
    ELSE [raise |-> FALSE, ep |-> eps[1], error |-> NoErr]

\* variant: the token cached by setup is the password, password=db_token
CachedPassword == g.db_token

\* password=cred.token
CbPassword == cb.token

\* variant: the credential is minted for the endpoint setup resolved
CredentialForProduction == g.prod_endpoint.name

\* generate_database_credential(endpoint=ep.name)
CredentialEndpoint == cb.ep.name

\* variant: the connection is returned in its default transaction mode
AutocommitOff == FALSE

\* branch_conn.autocommit = True
CbAutocommit == TRUE

CbFrame(b, wait_seconds) ==
    [CbIdle EXCEPT !.pc = "list", !.branch_id = b,
                   !.wait_seconds = wait_seconds]

\* variant: the exception is caught inside the helper, which starts over
CbRetry(e) == cb' = [cb EXCEPT !.pc = "list", !.error = e]

\* an exception of a statement of the helper leaves the helper
CbRaise(e) == cb' = [cb EXCEPT !.pc = "raised", !.error = e]

\* list_endpoints on a branch that does not exist may also be refused
ListOutcomes(b) ==
    Outcomes \cup (IF BranchAlive(b) THEN {} ELSE {"not_found"})

\* endpoints = list(w.postgres.list_endpoints(parent=branch_full))
CbList ==
    /\ cb.pc = "list"
    /\ \E r \in ListOutcomes(cb.branch_id) :
        /\ Count(r)
        /\ IF r = "ok"
           THEN \E n \in EndpointCounts(cb.branch_id, 0) :
                  LET eps == EndpointList(cb.branch_id, n) IN
                  /\ epCount' = [epCount EXCEPT ![cb.branch_id] = n]
                  /\ cb' = [cb EXCEPT
                        !.endpoints = eps, !.listings = 1, !.seen = n,
                        !.firstEmpty = (n = 0), !.allEmpty = (n = 0),
                        !.pc = IF NoEndpoints(eps)
                                  /\ PollRounds(cb.wait_seconds) > 0
                               THEN "poll" ELSE "check"]
           ELSE /\ CbRaise(Error("ServiceError", cb.branch_id, 0, r))
                /\ UNCHANGED epCount
    /\ xlog' = Log("list_endpoints")
    /\ UNCHANGED <<projectExists, branches, data, minted, created, now, runs, nb,
                   pc, ip, unskip, g, bind, conns, su, cl, err, lastDel,
                   lastCreate, preDel, calls, opVars>>

\* one round of the loop: time.sleep(10); list again; break if any
CbPoll ==
    /\ cb.pc = "poll"
    /\ cb.i < PollRounds(cb.wait_seconds)
    /\ \E r \in ListOutcomes(cb.branch_id) :
        /\ Count(r)
        /\ IF r = "ok"
           THEN \E n \in EndpointCounts(cb.branch_id, cb.i + 1) :
                  LET eps == EndpointList(cb.branch_id, n) IN
                  /\ epCount' = [epCount EXCEPT ![cb.branch_id] = n]
                  /\ cb' = [cb EXCEPT
                        !.slept = cb.slept + PollInterval,
                        !.endpoints = eps, !.listings = cb.listings + 1,
                        !.seen = n,
                        !.allEmpty = cb.allEmpty /\ (n = 0),
                        !.i = IF Breaks(eps) THEN cb.i ELSE cb.i + 1,
                        !.pc = IF ~Breaks(eps)
                                  /\ cb.i + 1 < PollRounds(cb.wait_seconds)
                               THEN "poll" ELSE "check"]
           ELSE /\ cb' = [cb EXCEPT
                        !.slept = cb.slept + PollInterval,
                        !.pc = "raised",
                        !.error = Error("ServiceError", cb.branch_id, 0, r)]
                /\ UNCHANGED epCount
    /\ xlog' = Log("list_endpoints")
    /\ UNCHANGED <<projectExists, branches, data, minted, created, now, runs, nb,
                   pc, ip, unskip, g, bind, conns, su, cl, err, lastDel,
                   lastCreate, preDel, calls, opVars>>

\* if not endpoints: raise ...; ep = endpoints[0]; host = ep.status.hosts.host
CbCheck ==
    /\ cb.pc = "check"
    /\ LET res == Resolve(cb.branch_id, cb.wait_seconds, cb.endpoints) IN
       IF res.raise
       THEN CbRaise(res.error)
       ELSE cb' = [cb EXCEPT !.ep = res.ep, !.pc = "mint"]
    /\ UNCHANGED <<svcVars, minted, created, now, runs, faults, nb, pc, ip,
                   unskip, g, bind, conns, su, cl, err, xlog, lastDel,
                   lastCreate, preDel, calls, opVars>>

\* cred = w.postgres.generate_database_credential(endpoint=ep.name)
CbMint ==
    /\ cb.pc = "mint"
    /\ \E r \in Outcomes :
        /\ Count(r)
        /\ IF r = "ok"
           THEN /\ minted' = minted + 1
                /\ cb' = [cb EXCEPT !.token = minted + 1,
                                    !.mintedFor = CredentialEndpoint,
                                    !.mints = cb.mints + 1,
                                    !.pc = "connect"]
           ELSE /\ CbRaise(Error("CredentialError", cb.branch_id, 0,
                                 "generate_database_credential"))
                /\ UNCHANGED minted
    /\ xlog' = Log("mint")
    /\ UNCHANGED <<svcVars, created, now, runs, nb, pc, ip, unskip, g, bind,
                   conns, su, cl, err, lastDel, lastCreate, preDel, calls, opVars>>

\* branch_conn = psycopg2.connect(host=host, ..., password=cred.token, ...)
CbConnect ==
    /\ cb.pc = "connect"
    /\ \E r \in Outcomes :
        /\ Count(r)
        /\ IF r = "ok"
           THEN /\ conns' = Append(conns,
                      NewConn(nb, cb.branch_id, cb.ep.host, CbPassword, TRUE))
                /\ cb' = [cb EXCEPT !.conn = Len(conns) + 1,
                                    !.connects = cb.connects + 1,
                                    !.pc = "auto"]
           ELSE /\ CbRaise(Error("ConnectionError", cb.branch_id, 0,
                                 "psycopg2.connect"))
                /\ UNCHANGED conns
    /\ xlog' = Log("connect")
    /\ UNCHANGED <<svcVars, minted, created, now, runs, nb, pc, ip, unskip, g,
                   bind, su, cl, err, lastDel, lastCreate, preDel, calls, opVars>>

\* branch_conn.autocommit = True; return branch_conn, host, ep.name
CbReturn ==
    /\ cb.pc = "auto"
    /\ conns' = [conns EXCEPT ![cb.conn].autocommit = CbAutocommit]
    /\ cb' = [cb EXCEPT !.pc = "returned",
                        !.ret = <<cb.conn, cb.ep.host, cb.ep.name>>]
    /\ UNCHANGED <<svcVars, minted, created, now, runs, faults, nb, pc, ip,
                   unskip, g, bind, su, cl, err, xlog, lastDel, lastCreate,
                   preDel, calls, opVars>>

CbStep == CbList \/ CbPoll \/ CbCheck \/ CbMint \/ CbConnect \/ CbReturn

(* ------------- connect_to_branch called with any arguments ------------- *)
WaitChoices == 0..MaxWait
DirectBranches == {"main", "dev-readonly", "recovery-branch"}

\* the state of notebook 01 after Step 1 in a project whose default branch
\* is main: project, connection to the default branch, helper, the
\* pre-create delete of dev-readonly answered not found, and dev-readonly
\* created from branches/main, with or without endpoints by now
InitCB ==
    /\ projectExists = TRUE
    /\ branches = {[id |-> "main", source |-> "", time |-> 0,
                    ttl |-> 0, default |-> TRUE, by |-> 0],
                   BranchRecord("dev-readonly", "main", 0, 86400, 1)}
    /\ \E n \in 0..MaxEndpoints :
          epCount = [b \in BranchIds |->
                        IF b = "main" THEN 1
                        ELSE IF b = "dev-readonly" THEN n ELSE 0]
    /\ data = [b \in BranchIds |->
                  IF b \in {"main", "dev-readonly"}
                  THEN <<[t |-> 1, d |-> Seeded]>> ELSE <<>>]
    /\ minted = 1
    /\ created = [b \in BranchIds |-> IF b = "dev-readonly" THEN 1 ELSE 0]
    /\ now = 1
    /\ runs = 1
    /\ faults = 0
    /\ nb = "direct"
    /\ pc = "direct"
    /\ ip = 0
    /\ unskip = FALSE
    /\ g = [NoGlobals EXCEPT !.prod_branch_name = "main",
                             !.prod_endpoint = Endpoint("main", 1),
                             !.db_token = 1, !.helper = TRUE]
    /\ bind = [NoBind EXCEPT !["conn"] = 1]
    /\ conns = <<[owner |-> "direct", branch |-> "main",
                  host |-> Endpoint("main", 1).host, token |-> 1,
                  mintedAt |-> 1, open |-> TRUE, autocommit |-> TRUE,
                  helper |-> FALSE]>>
    /\ su = [endpoints |-> EndpointList("main", 1), i |-> 0]
    /\ cb = CbIdle
    /\ cl = ClIdle
    /\ err = NoErr
    /\ xlog = <<"delete_branch", "create_branch">>
    /\ lastDel = [NoDel EXCEPT !.branch = "dev-readonly",
                               !.kind = "precreate", !.resp = "not_found"]
    /\ lastCreate = [id |-> "dev-readonly", source |-> "main", time |-> 0,
                     ttl |-> 86400, resp |-> "ok", by |-> 1]
    /\ preDel = [NoPreDel EXCEPT !["dev-readonly"] = "not_found"]
    /\ calls = 0
    /\ busy = NoBusy
    /\ pend = {}
    /\ waiting = ""

DirectCall(b, wait_seconds) ==
    /\ pc = "direct"
    /\ cb.pc = "idle"
    /\ calls < MaxCalls
    /\ calls' = calls + 1
    /\ cb' = CbFrame(b, wait_seconds)
    /\ err' = NoErr
    /\ UNCHANGED <<svcVars, minted, created, now, runs, faults, nb, pc, ip,
                   unskip, g, bind, conns, su, cl, xlog, lastDel, lastCreate,
                   preDel, opVars>>

\* branch_conn, host, name = connect_to_branch(...), or the exception
DirectReturn ==
    /\ pc = "direct"
    /\ cb.pc \in {"returned", "raised"}
    /\ IF cb.pc = "returned"
       THEN /\ bind' = [bind EXCEPT !["branch_conn"] = cb.ret[1]]
            /\ UNCHANGED err
       ELSE /\ err' = cb.error
            /\ UNCHANGED bind
    /\ cb' = CbIdle
    /\ UNCHANGED <<svcVars, minted, created, now, runs, faults, nb, pc, ip,
                   unskip, g, conns, su, cl, xlog, lastDel, lastCreate, preDel, calls, opVars>>

NextCB ==
    \/ \E b \in DirectBranches, t \in WaitChoices : DirectCall(b, t)
    \/ DirectReturn
    \/ CbStep

SpecCB == InitCB /\ [][NextCB]_vars

\* a call that has started goes on: the statements of connect_to_branch
\* run one after another in one thread
FairCB == SpecCB /\ WF_vars(CbStep)

(* ------------------------ scenario notebooks --------------------------- *)
\* A scenario is the list of its statements after %run ./00_Setup_Project.
\* catch > 0: the statement is inside try, its handler is catch statements on.
Ins(op, b, v, catch) ==
    [op |-> op, branch |-> b, var |-> v, catch |-> catch, src |-> "",
     ttl |-> 0, pit |-> FALSE, sql |-> "", pr |-> 0, into |-> ""]

\* try: w.postgres.delete_branch(name=...).wait()  except Exception: pass
PreDelete(b) == Ins("predelete", b, "", 0)
\* w.postgres.create_branch(parent, Branch(spec=BranchSpec(...)), branch_id).wait()
Create(b, src, ttl, pit) ==
    [Ins("create", b, "", 0) EXCEPT !.src = src, !.ttl = ttl, !.pit = pit]
\* v, _, _ = connect_to_branch(b)
Connect(v, b, catch) == Ins("connect", b, v, catch)
\* with v.cursor() as cur: cur.execute(...)
Sql(v, q, catch) == [Ins("sql", "", v, catch) EXCEPT !.sql = q]
\* ... ; x = cur.fetchone()[0]
SqlInto(v, q, x) == [Sql(v, q, 0) EXCEPT !.into = x]
\* v.close()
Close(v) == Ins("close", "", v, 0)
\* w.postgres.delete_branch(name=...).wait(), not inside try
Delete(b) == Ins("delete", b, "", 0)
\* try: delete_branch(...).wait()  except Exception: print("already cleaned up")
DeleteQuiet(b) == Ins("delete_quiet", b, "", 0)
\* delete_branch_safe(b): a name no notebook defines
DeleteSafe(b, catch) == Ins("delete_safe", b, "", catch)
\* list(w.postgres.list_branches(...)) / w.postgres.get_branch(...)
Listing == Ins("list_branches", "", "", 0)
\* %skip at the top of a cell: the next n statements do not run
SkipCell(n) == Ins("skip", "", "", n)
\* safe_timestamp = datetime.now(timezone.utc)
Stamp == Ins("stamp", "", "", 0)
\* time.sleep(5)
Sleep == Ins("sleep", "", "", 0)
\* results.append({...})
Record(pr, failed) ==
    [Ins("record", "", "", 0) EXCEPT !.pr = pr, !.pit = failed]
\* end of the try block: go past the except handler
Jump(n) == Ins("jump", "", "", n)

\* source_branch=prod_branch_name
PROD == "$prod"

Prog01 ==
    << PreDelete("dev-readonly"),
       Create("dev-readonly", "main", 86400, FALSE),
       Connect("dev_conn", "dev-readonly", 0),
       Sql("dev_conn", "row_counts", 0),
       SqlInto("dev_conn", "insert_test_customer", "branch_count"),
       SqlInto("conn", "count_customers", "main_count"),
       Close("dev_conn"),
       Delete("dev-readonly"),
       Listing >>

Prog02 ==
    << PreDelete("feature-loyalty-tier"),
       Create("feature-loyalty-tier", PROD, 604800, FALSE),
       Connect("feature_conn", "feature-loyalty-tier", 0),
       Sql("feature_conn", "loyalty_migration", 0),
       Sql("feature_conn", "validate_loyalty", 0),
       Listing,
       SqlInto("conn", "customer_columns", "prod_columns"),
       Sql("conn", "loyalty_migration", 0),
       Sql("conn", "loyalty_tiers", 0),
       SkipCell(3),
       Close("feature_conn"),
       DeleteSafe("feature-loyalty-tier", 0),
       Listing >>

Prog03 ==
    << PreDelete("feature-order-priority"),
       PreDelete("feature-order-priority-v2"),
       Create("feature-order-priority", PROD, 172800, FALSE),
       Connect("feature_conn", "feature-order-priority", 0),
       Sql("feature_conn", "priority_migration", 0),
       Sql("feature_conn", "priority_counts", 0),
       Sql("conn", "email_verified_migration", 0),
       SqlInto("conn", "customer_columns", "prod_columns"),
       Sql("feature_conn", "customer_columns", 0),
       Create("feature-order-priority-v2", PROD, 172800, FALSE),
       Connect("feature_conn_v2", "feature-order-priority-v2", 0),
       Sql("feature_conn_v2", "priority_migration", 0),
       Sql("feature_conn_v2", "columns", 0),
       Sql("conn", "priority_migration", 0),
       Sql("conn", "columns", 0),
       SkipCell(4),
       Close("feature_conn"),
       Close("feature_conn_v2"),
       DeleteSafe("feature-order-priority", 1),
       DeleteSafe("feature-order-priority-v2", 1) >>

Prog04 ==
    << Stamp,
       SqlInto("conn", "count_and_stats", "before_count"),
       Sleep,
       SqlInto("conn", "delete_customers_over_50", "after_count"),
       PreDelete("recovery-branch"),
       Create("recovery-branch", PROD, 86400, TRUE),
       Connect("recovery_conn", "recovery-branch", 0),
       SqlInto("recovery_conn", "count_customers", "recovery_count"),
       SqlInto("conn", "count_customers", "prod_count"),
       SqlInto("recovery_conn", "extract_deleted", "deleted_customers"),
       Sql("conn", "restore_deleted", 0),
       SqlInto("conn", "count_customers", "final_count"),
       Close("recovery_conn"),
       DeleteSafe("recovery-branch", 0) >>

CiBranch(pr) == IF pr = 42 THEN "ci-pr-42"
                ELSE IF pr = 43 THEN "ci-pr-43" ELSE "ci-pr-44"

\* Step 2, one round of: for pr in PULL_REQUESTS
CiCreate(pr) ==
    << PreDelete(CiBranch(pr)), Create(CiBranch(pr), PROD, 3600, FALSE) >>

\* Step 3, one round: try: connect, migrate, test, append, close
\* except Exception: append a failed result
CiTest(pr) ==
    << Connect("branch_conn", CiBranch(pr), 6),
       [Sql("branch_conn", "pr_migration", 5) EXCEPT !.pr = pr],
       [Sql("branch_conn", "pr_test_query", 4) EXCEPT
           !.pr = pr, !.into = "test_result"],
       Record(pr, FALSE),
       [Close("branch_conn") EXCEPT !.catch = 2],
       Jump(2),
       Record(pr, TRUE) >>

Prog05 ==
    CiCreate(42) \o CiCreate(43) \o CiCreate(44)
    \o CiTest(42) \o CiTest(43) \o CiTest(44)
    \o << SqlInto("conn", "columns_and_count", "prod_count"),
          DeleteQuiet("ci-pr-42"), DeleteQuiet("ci-pr-43"),
          DeleteQuiet("ci-pr-44") >>

Prog(n) ==
    CASE n = "01" -> Prog01
      [] n = "02" -> Prog02
      [] n = "03" -> Prog03
      [] n = "04" -> Prog04
      [] n = "05" -> Prog05
      [] OTHER -> <<>>

InScenario ==
    nb \in Scenarios /\ pc = "scenario" /\ cb.pc = "idle" /\ waiting = ""
AtOp(op) == InScenario /\ ip \in DOMAIN Prog(nb) /\ Prog(nb)[ip].op = op
Cur == Prog(nb)[ip]

Step == /\ ip' = ip + 1 /\ UNCHANGED <<nb, pc, err>>
\* variant: no handler catches, every exception ends the run
RaiseUncaught(e) == Abort(e)

\* an exception in a statement: to its handler, or out of the cell
Raise(e) ==
    IF Cur.catch > 0
    THEN /\ ip' = ip + Cur.catch /\ UNCHANGED <<nb, pc, err>>
    ELSE Abort(e)

\* what is known of a delete_branch call: the session state and the default
\* flag of its target when it was issued, the service's answer, whether a
\* failure reached the user (raised, or printed with branch id and cause)
\* and what the notebook printed about the branch
DelRecord(b, kind, resp, surfaced, reported) ==
    [branch |-> b, kind |-> kind, resp |-> resp,
     openSession |-> OpenSession(b), onDefault |-> IsDefaultId(b),
     flagged |-> (kind = "cleanup" /\ b \in cl.flagged),
     surfaced |-> surfaced, reported |-> reported]

\* delete_branch(name=b): the service starts the deletion it accepts
DeleteIssued(b, resp) ==
    /\ busy' = IF resp = "ok" THEN [busy EXCEPT ![b] = "deleting"] ELSE busy
    /\ waiting' = IF resp = "ok" THEN b ELSE ""
    /\ UNCHANGED <<svcVars, pend>>

\* .wait() of the create_branch or delete_branch just issued
ScnWait ==
    /\ nb \in Scenarios /\ pc = "scenario"
    /\ waiting # ""
    /\ WaitOver(waiting)
    /\ waiting' = ""
    /\ Step
    /\ UNCHANGED <<svcVars, minted, created, now, runs, faults, unskip, g,
                   bind, conns, su, cb, cl, xlog, lastDel, lastCreate, preDel,
                   calls, busy, pend>>

\* print("Cleaned up existing branch ...") after the pre-create delete:
\* in 01-04; the try block of 05 (114-119) prints nothing
PreDeletePrints(n) == n # "05"

\* the pre-create cleanup: whatever delete_branch raises is passed over
ScnPreDelete ==
    /\ AtOp("predelete")
    /\ \E resp \in DeleteResponses(Cur.branch) :
        /\ Count(resp)
        /\ DeleteIssued(Cur.branch, resp)
        /\ lastDel' = DelRecord(Cur.branch, "precreate", resp, FALSE,
                                IF resp = "ok" /\ PreDeletePrints(nb)
                                THEN "cleaned up" ELSE "")
        /\ preDel' = [preDel EXCEPT ![Cur.branch] = resp]
        /\ IF resp = "ok" THEN UNCHANGED <<nb, pc, ip, err>> ELSE Step
    /\ xlog' = Log("delete_branch")
    /\ UNCHANGED <<minted, created, now, runs, unskip, g, bind, conns, su, cb,
                   cl, lastCreate, calls>>

Source(i) == IF i.src = PROD THEN g.prod_branch_name ELSE i.src

\* variant: the BranchSpec carries no source_branch_time
SourceTimeOmitted(i) == 0

\* source_branch_time=pb_ts, from safe_timestamp
SourceTime(i) == IF i.pit THEN g.safe_timestamp ELSE 0

\* variant: create_branch(...) without .wait(), a failure is not raised
CreateNeverRaises(resp) == FALSE

\* .wait() raises when the service reports a failure
CreateRaises(resp) == resp # "ok"

ScnCreate ==
    /\ AtOp("create")
    /\ \E resp \in CreateResponses(Cur.branch, Source(Cur)) :
        /\ Count(resp)
        /\ IF resp = "ok"
           THEN /\ pend' = pend \cup
                      {BranchRecord(Cur.branch, Source(Cur), SourceTime(Cur),
                                    Cur.ttl, created[Cur.branch] + 1)}
                /\ created' = [created EXCEPT ![Cur.branch] = @ + 1]
                /\ busy' = [busy EXCEPT ![Cur.branch] = "creating"]
                /\ waiting' = Cur.branch
                /\ UNCHANGED <<nb, pc, ip, err>>
           ELSE /\ UNCHANGED <<pend, created, busy, waiting>>
                /\ IF CreateRaises(resp)
                   THEN Raise(Error("CreateFailed", Cur.branch, 0, resp))
                   ELSE Step
        /\ lastCreate' =
              [id |-> Cur.branch, source |-> Source(Cur),
               time |-> SourceTime(Cur), ttl |-> Cur.ttl, resp |-> resp,
               by |-> IF resp = "ok" THEN created[Cur.branch] + 1 ELSE 0]
    /\ xlog' = Log("create_branch")
    /\ UNCHANGED <<svcVars, minted, now, runs, unskip, g, bind, conns,
                   su, cb, cl, lastDel, preDel, calls>>

\* the call of connect_to_branch(branch) with the default wait_seconds
ScnConnectCall ==
    /\ AtOp("connect")
    /\ cb' = CbFrame(Cur.branch, DefaultWait)
    /\ UNCHANGED <<svcVars, minted, created, now, runs, faults, nb, pc, ip,
                   unskip, g, bind, conns, su, cl, err, xlog, lastDel,
                   lastCreate, preDel, calls, opVars>>

\* its return: the tuple is unpacked, or its exception goes on
ScnConnectReturn ==
    /\ nb \in Scenarios /\ pc = "scenario"
    /\ cb.pc \in {"returned", "raised"}
    /\ IF cb.pc = "returned"
       THEN /\ bind' = [bind EXCEPT ![Cur.var] = cb.ret[1]]
            /\ Step
       ELSE /\ Raise(cb.error)
            /\ UNCHANGED bind
    /\ cb' = CbIdle
    /\ UNCHANGED <<svcVars, minted, created, now, runs, faults, unskip, g,
                   conns, su, cl, xlog, lastDel, lastCreate, preDel, calls, opVars>>

\* the column of PULL_REQUESTS[pr]: added by its migration, read by its test
PrColumn(pr) == IF pr = 42 THEN "loyalty_tier"
                ELSE IF pr = 43 THEN "priority" ELSE "avg_rating"

\* variant: the disaster deletes the parent rows first
DeleteParentFirst == <<"customers", "orders", "order_items">>

\* the tables in the order the disaster cell deletes from them
DeleteOrder == <<"order_items", "orders", "customers">>

\* the tables in the order the restore cell inserts into them
RestoreOrder == <<"customers", "orders", "order_items">>

\* one cur.execute of a cell: what it does, the table or column it names,
\* and the variable its result is assigned to ("" if none is kept)
St(do, x, into) == [do |-> do, x |-> x, into |-> into]

\* SELECT column_name FROM information_schema.columns WHERE table_name = ...
Columns(into) == St("columns", "", into)

\* the cur.execute calls of a cell, in the order the cell makes them
Stmts(i) ==
    CASE i.sql = "row_counts" ->
            << St("select", "customers", ""), St("select", "products", ""),
               St("select", "orders", ""), St("select", "order_items", ""),
               St("select", "orders", "") >>
      [] i.sql = "insert_test_customer" ->
            << St("insert_one", "customers", ""),
               St("select", "customers", i.into) >>
      [] i.sql = "count_customers" -> << St("select", "customers", i.into) >>
      [] i.sql = "count_and_stats" ->
            << St("select", "customers", i.into), St("select", "orders", "") >>
      [] i.sql = "loyalty_migration" -> << St("migrate", "loyalty_tier", "") >>
      [] i.sql = "validate_loyalty" ->
            << Columns(""), St("select_col", "loyalty_tier", ""),
               St("select_col", "loyalty_tier", "") >>
      [] i.sql = "loyalty_tiers" -> << St("select_col", "loyalty_tier", "") >>
      [] i.sql = "priority_migration" -> << St("migrate", "priority", "") >>
      [] i.sql = "priority_counts" -> << St("select_col", "priority", "") >>
      [] i.sql = "email_verified_migration" ->
            << St("migrate", "email_verified", ""),
               St("select_col", "email_verified", "") >>
      [] i.sql = "customer_columns" -> << Columns(i.into) >>
      [] i.sql = "columns" -> << Columns(""), Columns("") >>
      [] i.sql = "columns_and_count" ->
            << Columns(""), St("select", "customers", i.into) >>
      [] i.sql = "delete_customers_over_50" ->
            << St("delete", DeleteOrder[1], ""), St("delete", DeleteOrder[2], ""),
               St("delete", DeleteOrder[3], ""),
               St("select", "customers", i.into) >>
      [] i.sql = "extract_deleted" ->
            << St("fetch", "customers", "deleted_customers"),
               St("fetch", "orders", "deleted_orders"),
               St("fetch", "order_items", "deleted_items") >>
      [] i.sql = "restore_deleted" ->
            << St("insert_rows", RestoreOrder[1], ""),
               St("insert_rows", RestoreOrder[2], ""),
               St("insert_rows", RestoreOrder[3], "") >>
      [] i.sql = "pr_migration" -> << St("migrate", PrColumn(i.pr), "") >>
      [] i.sql = "pr_test_query" ->
            << St("select_col", PrColumn(i.pr), i.into) >>
      [] OTHER -> <<>>

\* The statement is rejected by the database: a table or a column it names
\* does not exist, or (migration of PR 44) ROUND(RANDOM() * 4 + 1, 2) calls
\* round(double precision, integer), which PostgreSQL does not have.
\* information_schema.columns exists in every database.
Rejected(i, s, d) ==
    \/ s.do # "columns" /\ ~d.tables
    \/ s.do = "select_col" /\ s.x \notin d.cols
    \/ i.sql = "pr_migration" /\ i.pr = 44

\* the rows the scenario fetched from the recovery branch: the number of
\* deleted_customers, and whether deleted_orders / deleted_items are non-empty
Fetched(gg) == [customers |-> IF gg.vals["deleted_customers"] < 0 THEN 0
                              ELSE gg.vals["deleted_customers"],
                orders |-> gg.deleted_orders, order_items |-> gg.deleted_items]

\* DELETE FROM t the rows of customers with id > 50: orders.customer_id
\* REFERENCES customers(id) and order_items.order_id REFERENCES orders(id)
\* without ON DELETE CASCADE, so a delete is rejected while rows of the
\* referencing table remain
DeleteHi(t, d) ==
    CASE t = "order_items" -> [ok |-> TRUE, d |-> [d EXCEPT !.hiItems = FALSE]]
      [] t = "orders" ->
            IF d.hiItems THEN [ok |-> FALSE, d |-> d]
            ELSE [ok |-> TRUE, d |-> [d EXCEPT !.hiOrders = FALSE]]
      [] t = "customers" ->
            IF d.hiOrders THEN [ok |-> FALSE, d |-> d]
            ELSE [ok |-> TRUE,
                  d |-> [d EXCEPT !.customers =
                            IF @ < KeptCustomers THEN @ ELSE KeptCustomers]]

\* the customers table after the first n fetched rows are inserted
\* (ON CONFLICT DO NOTHING: a row that is still there is left alone)
WithCustomers(d, n) ==
    LET kept == IF d.customers < KeptCustomers THEN d.customers
                ELSE KeptCustomers
    IN [d EXCEPT !.customers = IF kept + n > @ THEN kept + n ELSE @]

\* INSERT INTO t ... ON CONFLICT DO NOTHING of every fetched row: an order is
\* rejected while its customer is missing, an item while its order is missing
InsertHi(t, d, got) ==
    CASE t = "customers" ->
            [ok |-> TRUE, d |-> WithCustomers(d, got.customers)]
      [] t = "orders" ->
            IF ~got.orders THEN [ok |-> TRUE, d |-> d]
            ELSE IF d.customers <= KeptCustomers THEN [ok |-> FALSE, d |-> d]
            ELSE [ok |-> TRUE, d |-> [d EXCEPT !.hiOrders = TRUE]]
      [] t = "order_items" ->
            IF ~got.order_items THEN [ok |-> TRUE, d |-> d]
            ELSE IF ~d.hiOrders THEN [ok |-> FALSE, d |-> d]
            ELSE [ok |-> TRUE, d |-> [d EXCEPT !.hiItems = TRUE]]

\* the database after the statement, ok = FALSE if it violates a foreign key
Effect(s, d, got) ==
    CASE s.do = "migrate" ->
            [ok |-> TRUE, d |-> [d EXCEPT !.cols = @ \cup {s.x}]]
      [] s.do = "insert_one" ->
            [ok |-> TRUE, d |-> [d EXCEPT !.customers = @ + 1]]
      [] s.do = "delete" -> DeleteHi(s.x, d)
      [] s.do = "insert_rows" -> InsertHi(s.x, d, got)
      [] OTHER -> [ok |-> TRUE, d |-> d]

\* The rows a statement can have completed when it raises part-way. A
\* statement is one execute and all or nothing; the restore loops make one
\* execute per fetched row, each committed on its own (conn.autocommit), so
\* they can stop after any number of rows short of all. For orders and
\* order_items 0 stands for no row inserted, 1 for some.
RowsBefore(s, got) ==
    IF s.do # "insert_rows" THEN {0}
    ELSE CASE s.x = "customers" -> 0 .. (got.customers - 1)
           [] s.x = "orders" -> IF got.orders THEN {0, 1} ELSE {}
           [] s.x = "order_items" -> IF got.order_items THEN {0, 1} ELSE {}

\* the database when statement s raises after n of its rows
Partial(s, d, n) ==
    IF s.do # "insert_rows" \/ n = 0 THEN d
    ELSE CASE s.x = "customers" -> WithCustomers(d, n)
           [] s.x = "orders" -> [d EXCEPT !.hiOrders = TRUE]
           [] s.x = "order_items" -> [d EXCEPT !.hiItems = TRUE]

\* x = cur.fetchone()[0] / x = cur.fetchall() after statement s of cell i
Assign(gg, i, s, d) ==
    IF s.into = "" THEN gg
    ELSE IF s.do = "columns" THEN [gg EXCEPT !.prod_columns = d.cols]
    ELSE IF s.do = "fetch"
    THEN CASE s.x = "customers" ->
                [gg EXCEPT !.vals[s.into] =
                    IF d.customers > KeptCustomers
                    THEN d.customers - KeptCustomers ELSE 0]
           [] s.x = "orders" -> [gg EXCEPT !.deleted_orders = d.hiOrders]
           [] s.x = "order_items" -> [gg EXCEPT !.deleted_items = d.hiItems]
    ELSE IF i.sql = "pr_test_query"
    THEN [gg EXCEPT !.vals[s.into] =
            IF i.pr = 42 THEN d.customers
            ELSE IF i.pr = 43 THEN 0 ELSE SeedProducts]
    ELSE [gg EXCEPT !.vals[s.into] = d.customers]

\* The statements ss of cell i from the k-th on, on database d with the
\* notebook's variables gg: each statement is committed on its own
\* (autocommit) and its result assigned before the next one runs. The cell
\* ends at the first statement the database rejects ("rejected", or "fk" for
\* a foreign key), at statement stop when the call raises there after rows
\* of its rows ("raised"; stop = 0: no call raises), or after the last one.
RECURSIVE RunStmts(_, _, _, _, _, _, _)
RunStmts(i, ss, k, d, gg, stop, rows) ==
    IF k > Len(ss) THEN [end |-> "ok", d |-> d, g |-> gg]
    ELSE LET s == ss[k]
             r == Effect(s, d, Fetched(gg))
         IN IF Rejected(i, s, d) THEN [end |-> "rejected", d |-> d, g |-> gg]
            ELSE IF ~r.ok THEN [end |-> "fk", d |-> r.d, g |-> gg]
            ELSE IF k = stop
            THEN [end |-> "raised", d |-> Partial(s, d, rows), g |-> gg]
            ELSE RunStmts(i, ss, k + 1, r.d, Assign(gg, i, s, r.d), stop, rows)

\* variant: every statement is executed on the production connection
SqlOnProduction(v) == "conn"

\* with v.cursor() as cur: the connection the statement is executed on
SqlOn(v) == v

\* A cell of cur.execute calls. A statement on an unbound variable is a
\* NameError, on a closed connection an InterfaceError; otherwise the
\* database of the branch the connection was opened on answers, statement
\* by statement. What was committed and assigned before a statement raises
\* stays.
ScnSql ==
    /\ AtOp("sql")
    /\ IF bind[Cur.var] = 0
       THEN /\ Raise(Error("NameError", "", 0, Cur.var))
            /\ UNCHANGED <<faults, data, g>>
       ELSE IF ~conns[bind[SqlOn(Cur.var)]].open
       THEN /\ Raise(Error("InterfaceError", "", 0, Cur.var))
            /\ UNCHANGED <<faults, data, g>>
       ELSE IF ~BranchAlive(conns[bind[SqlOn(Cur.var)]].branch)
       THEN /\ Raise(Error("OperationalError", "", 0, Cur.var))
            /\ UNCHANGED <<faults, data, g>>
       ELSE \E stop \in 0 .. Len(Stmts(Cur)) :
            \E r \in IF stop = 0 THEN {"ok"} ELSE Outcomes \ {"ok"} :
            \E rows \in IF stop = 0 THEN {0}
                        ELSE RowsBefore(Stmts(Cur)[stop], Fetched(g)) :
              LET b == conns[bind[SqlOn(Cur.var)]].branch
                  run == RunStmts(Cur, Stmts(Cur), 1, Db(b), g, stop, rows)
              IN
              /\ stop > 0 => run.end = "raised"
              /\ Count(r)
              /\ data' = IF run.d = Db(b) THEN data ELSE Written(b, run.d)
              /\ g' = run.g
              /\ CASE run.end = "ok" -> Step
                   [] run.end = "fk" ->
                        Raise(Error("ForeignKeyViolation", b, 0, Cur.sql))
                   [] OTHER -> Raise(Error("DatabaseError", b, 0, Cur.sql))
    /\ xlog' = Log("sql")
    /\ UNCHANGED <<projectExists, branches, epCount, minted, created, now,
                   runs, unskip, bind, conns, su, cb, cl, lastDel,
                   lastCreate, preDel, calls, opVars>>

ScnClose ==
    /\ AtOp("close")
    /\ IF bind[Cur.var] = 0
       THEN /\ Raise(Error("NameError", "", 0, Cur.var))
            /\ UNCHANGED conns
       ELSE \E o \in CloseOutcomes(conns[bind[Cur.var]]) :
              IF o = "raised"
              THEN /\ Raise(Error("InterfaceError", "", 0, Cur.var))
                   /\ UNCHANGED conns
              ELSE /\ conns' = [conns EXCEPT ![bind[Cur.var]] = Closed(@)]
                   /\ Step
    /\ UNCHANGED <<svcVars, minted, created, now, runs, faults, unskip, g,
                   bind, su, cb, cl, xlog, lastDel, lastCreate, preDel, calls, opVars>>

\* Step 5 of notebook 01: the delete is not inside try
ScnDelete ==
    /\ AtOp("delete")
    /\ \E resp \in DeleteResponses(Cur.branch) :
        /\ Count(resp)
        /\ DeleteIssued(Cur.branch, resp)
        /\ lastDel' = DelRecord(Cur.branch, "teardown", resp, resp # "ok",
                                IF resp = "ok" THEN "deleted" ELSE "")
        /\ IF resp = "ok" THEN UNCHANGED <<nb, pc, ip, err>>
           ELSE Raise(Error("DeleteFailed", Cur.branch, 0, resp))
    /\ xlog' = Log("delete_branch")
    /\ UNCHANGED <<minted, created, now, runs, unskip, g, bind, conns, su, cb,
                   cl, lastCreate, preDel, calls>>

\* Step 6 of notebook 05: any exception prints "Branch already cleaned up"
ScnDeleteQuiet ==
    /\ AtOp("delete_quiet")
    /\ \E resp \in DeleteResponses(Cur.branch) :
        /\ Count(resp)
        /\ DeleteIssued(Cur.branch, resp)
        /\ lastDel' = DelRecord(Cur.branch, "teardown", resp, FALSE,
                                IF resp = "ok" THEN "deleted"
                                ELSE "already cleaned up")
        /\ IF resp = "ok" THEN UNCHANGED <<nb, pc, ip, err>> ELSE Step
    /\ xlog' = Log("delete_branch")
    /\ UNCHANGED <<minted, created, now, runs, unskip, g, bind, conns, su, cb,
                   cl, lastCreate, preDel, calls>>

\* delete_branch_safe is defined nowhere: the call is a NameError
ScnDeleteSafe ==
    /\ AtOp("delete_safe")
    /\ Raise(Error("NameError", Cur.branch, 0, "delete_branch_safe"))
    /\ UNCHANGED <<svcVars, minted, created, now, runs, faults, unskip, g,
                   bind, conns, su, cb, cl, xlog, lastDel, lastCreate, preDel,
                   calls, opVars>>

ScnListing ==
    /\ AtOp("list_branches")
    /\ \E r \in Outcomes :
        /\ Count(r)
        /\ IF r = "ok" THEN Step
           ELSE Raise(Error("ServiceError", "", 0, "list_branches"))
    /\ xlog' = Log("list_branches")
    /\ UNCHANGED <<svcVars, minted, created, now, runs, unskip, g, bind,
                   conns, su, cb, cl, lastDel, lastCreate, preDel, calls, opVars>>

\* %skip: the cell runs only when the user removed the magic
ScnSkipCell ==
    /\ AtOp("skip")
    /\ ip' = IF unskip THEN ip + 1 ELSE ip + 1 + Cur.catch
    /\ UNCHANGED <<svcVars, minted, created, now, runs, faults, nb, pc,
                   unskip, g, bind, conns, su, cb, cl, err, xlog, lastDel,
                   lastCreate, preDel, calls, opVars>>

ScnStamp ==
    /\ AtOp("stamp")
    /\ g' = [g EXCEPT !.safe_timestamp = now]
    /\ Step
    /\ UNCHANGED <<svcVars, minted, created, now, runs, faults, unskip, bind,
                   conns, su, cb, cl, xlog, lastDel, lastCreate, preDel,
                   calls, opVars>>

ScnSleep ==
    /\ AtOp("sleep")
    /\ now' = now + 1
    /\ Step
    /\ UNCHANGED <<svcVars, minted, created, runs, faults, unskip, g, bind,
                   conns, su, cb, cl, xlog, lastDel, lastCreate, preDel,
                   calls, opVars>>

\* "expected_pass" of PULL_REQUESTS: False for PR 43 only
ExpectedPass(pr) == pr # 43

\* passed = test_result > 0 if pr['expected_pass'] else test_result == 0
Passed(pr, test_result) ==
    IF ExpectedPass(pr) THEN test_result > 0 ELSE test_result = 0

\* the pull requests of PULL_REQUESTS, in the order of the list
PrNumbers == <<42, 43, 44>>

\* passed_count = sum(1 for r in results if r['passed'])
PassedCount == Cardinality({k \in DOMAIN g.results : g.results[k].passed})

\* failed_count = len(results) - passed_count
FailedCount == Len(g.results) - PassedCount

\* results.append({...}): in the try body with the outcome of the test, in
\* the except handler with "passed": False
ScnRecord ==
    /\ AtOp("record")
    /\ g' = [g EXCEPT !.results =
                Append(@, [pr |-> Cur.pr, error |-> Cur.pit,
                           passed |-> IF Cur.pit THEN FALSE
                                      ELSE Passed(Cur.pr,
                                                  g.vals["test_result"])])]
    /\ Step
    /\ UNCHANGED <<svcVars, minted, created, now, runs, faults, unskip, bind,
                   conns, su, cb, cl, xlog, lastDel, lastCreate, preDel,
                   calls, opVars>>

ScnJump ==
    /\ AtOp("jump")
    /\ ip' = ip + Cur.catch
    /\ UNCHANGED <<svcVars, minted, created, now, runs, faults, nb, pc,
                   unskip, g, bind, conns, su, cb, cl, err, xlog, lastDel,
                   lastCreate, preDel, calls, opVars>>

\* the last cell is done
ScnEnd ==
    /\ InScenario
    /\ ip > Len(Prog(nb))
    /\ EndRun
    /\ UNCHANGED <<svcVars, minted, created, now, runs, faults, unskip, g,
                   bind, conns, su, cb, cl, xlog, lastDel, lastCreate, preDel,
                   calls, opVars>>

(* ----------------------------- 99_Cleanup ------------------------------ *)
\* if b.status and b.status.default:
IsDefaultFlag(b) == b \in cl.flagged

\* try: branches = list(...)  except Exception: branches = []
ClList ==
    /\ nb = "99" /\ pc = "cl_list"
    /\ \E r \in ListingOutcomes \cup
                 (IF projectExists THEN {} ELSE {"not_found"}) :
        /\ Count(r)
        /\ cl' = [cl EXCEPT !.todo = IF r \in {"ok", "unflagged"}
                                        /\ projectExists
                                     THEN ListBranches ELSE <<>>,
                             !.listed = IF r \in {"ok", "unflagged"}
                                           /\ projectExists
                                        THEN ListBranches ELSE <<>>,
                             !.flagged = IF r = "ok" /\ projectExists
                                         THEN {b \in BranchIds :
                                                 IsDefaultId(b)}
                                         ELSE {}]
    /\ Goto("cl_loop")
    /\ xlog' = Log("list_branches")
    /\ UNCHANGED <<svcVars, minted, created, now, runs, unskip, g, bind,
                   conns, su, cb, lastDel, lastCreate, preDel, calls, opVars>>

\* for b in branches: skip the default branch, try to delete the others
\* (a failed delete is printed with the branch id and the exception)
ClLoop ==
    /\ nb = "99" /\ pc = "cl_loop"
    /\ waiting = ""
    /\ cl.todo # <<>>
    /\ LET b == Head(cl.todo) IN
       IF IsDefaultFlag(b)
       THEN /\ cl' = [cl EXCEPT !.todo = Tail(@), !.skipped = @ + 1,
                                !.metDefault = TRUE]
            /\ UNCHANGED <<svcVars, faults, lastDel, xlog, opVars>>
       ELSE \E resp \in DeleteResponses(b) :
              /\ Count(resp)
              /\ DeleteIssued(b, resp)
              /\ lastDel' = DelRecord(b, "cleanup", resp, resp # "ok",
                                      IF resp = "ok" THEN "deleted"
                                      ELSE "could not delete")
              /\ cl' = [cl EXCEPT !.todo = Tail(@),
                                   !.issued = Append(@, b),
                                   !.failed = IF resp = "ok" THEN @
                                              ELSE @ + 1]
              /\ xlog' = Log("delete_branch")
    /\ UNCHANGED <<minted, created, now, runs, nb, pc, ip, unskip, g, bind,
                   conns, su, cb, err, lastCreate, preDel, calls>>

\* .wait() of the delete just issued; deleted += 1
ClWait ==
    /\ nb = "99"
    /\ waiting # ""
    /\ WaitOver(waiting)
    /\ waiting' = ""
    /\ cl' = [cl EXCEPT !.deleted = IF waiting = "project" THEN @ ELSE @ + 1]
    /\ UNCHANGED <<svcVars, minted, created, now, runs, faults, nb, pc, ip,
                   unskip, g, bind, conns, su, cb, err, xlog, lastDel,
                   lastCreate, preDel, calls, busy, pend>>

\* if DELETE_PROJECT:
DeletesProject(flag) == flag

\* if DELETE_PROJECT: try: delete_project(...).wait()  except: print
ClProject ==
    /\ nb = "99" /\ pc = "cl_loop"
    /\ waiting = ""
    /\ cl.todo = <<>>
    /\ IF DeletesProject(cl.delete_project)
       THEN \E r \in Outcomes \cup
                     (IF projectExists THEN {} ELSE {"not_found"}) :
              /\ Count(r)
              /\ cl' = [cl EXCEPT !.projCalls = @ + 1]
              /\ IF r = "ok" /\ projectExists
                 THEN /\ busy' = [busy EXCEPT !["project"] = "deleting"]
                      /\ waiting' = "project"
                 ELSE UNCHANGED <<busy, waiting>>
              /\ xlog' = Log("delete_project")
       ELSE UNCHANGED <<faults, xlog, busy, waiting, cl>>
    /\ Goto("cl_end")
    /\ UNCHANGED <<svcVars, minted, created, now, runs, unskip, g, bind,
                   conns, su, cb, lastDel, lastCreate, preDel, calls,
                   pend>>

\* the last cell is done
ClEnd ==
    /\ nb = "99" /\ pc = "cl_end"
    /\ waiting = ""
    /\ EndRun
    /\ UNCHANGED <<svcVars, minted, created, now, runs, faults, unskip, g,
                   bind, conns, su, cb, cl, xlog, lastDel, lastCreate, preDel,
                   calls, opVars>>

(* --------------------------- specification ----------------------------- *)
SetupStep ==
    \/ SuListProjects \/ SuCreateProject \/ SuWaitProject \/ SuLookupProject
    \/ SuListBranches \/ SuListEndpoints \/ SuPoll \/ SuCheck
    \/ SuMint \/ SuConnect \/ SuSeed \/ SuDefineHelper

ScenarioStep ==
    \/ ScnPreDelete \/ ScnCreate \/ ScnWait \/ ScnConnectCall \/ ScnConnectReturn
    \/ ScnSql \/ ScnClose \/ ScnDelete \/ ScnDeleteQuiet \/ ScnDeleteSafe
    \/ ScnListing \/ ScnSkipCell \/ ScnStamp \/ ScnSleep \/ ScnRecord
    \/ ScnJump \/ ScnEnd

CleanupStep == ClList \/ ClLoop \/ ClWait \/ ClProject \/ ClEnd

Next ==
    \/ \E n \in Notebooks :
          \E u \in (IF n \in {"02", "03"} THEN BOOLEAN ELSE {FALSE}) :
             \E dp \in (IF n = "99" THEN {DELETE_PROJECT, TRUE}
                                   ELSE {DELETE_PROJECT}) :
                StartRun(n, u, dp)
    \/ Restart
    \/ CurrentUser
    \/ \E r \in Resources : SvcComplete(r)
    \/ SetupStep
    \/ CbStep
    \/ ScenarioStep
    \/ CleanupStep

Spec == Init /\ [][Next]_vars

(* ------------------------------ properties ----------------------------- *)
\* C1: connect_to_branch reaches generate_database_credential and
\* psycopg2.connect only after a listing that returned at least one
\* endpoint: whenever the call is at or past the minting statement, its most
\* recent list_endpoints result was non-empty and the endpoint it uses is one
\* of that listing.
C1_MintOnlyAfterEndpointSeen ==
    (cb.pc \in {"mint", "connect", "auto", "returned"}
        \/ cb.mints > 0 \/ cb.connects > 0)
    => /\ cb.seen > 0
       /\ cb.endpoints # <<>>
       /\ cb.ep \in {cb.endpoints[k] : k \in DOMAIN cb.endpoints}

\* C1 case: a call that returned a connection after two empty listings and
\* a third, non-empty one
C1_Witness ==
    /\ cb.pc = "returned"
    /\ cb.listings = 3
    /\ cb.seen > 0
    /\ cb.mints = 1

\* C2: when every list_endpoints call of connect_to_branch(branch_id, T)
\* returns an empty list, the call mints no credential and opens no
\* connection, sleeps PollInterval per extra listing and never more than T
\* in total, and ends by raising the error that names branch_id and T once
\* the slept time is within one PollInterval of T; and every call that has
\* started ends (returns or raises).
C2_EmptyListingsRaiseAfterWait ==
    /\ []((cb.listings >= 1 /\ cb.allEmpty /\ cb.error.type # "ServiceError")
          => /\ cb.mints = 0 /\ cb.connects = 0 /\ cb.conn = 0
             /\ cb.pc \in {"poll", "check", "raised"}
             /\ cb.slept = PollInterval * (cb.listings - 1)
             /\ cb.slept <= cb.wait_seconds
             /\ (cb.pc \in {"check", "raised"}
                    => cb.wait_seconds - cb.slept < PollInterval)
             /\ (cb.pc = "raised"
                    => cb.error = Error("NoEndpoint", cb.branch_id,
                                        cb.wait_seconds, "")))
    /\ ((cb.pc = "list") ~> (cb.pc \in {"returned", "raised"}))

\* C2 case: a call with T of 30 or 31 that raised after four empty listings
\* and 30 seconds of sleep
C2_Witness ==
    /\ cb.pc = "raised"
    /\ cb.allEmpty
    /\ cb.listings = 4
    /\ cb.slept = 30
    /\ cb.error.type = "NoEndpoint"

\* C3: no delete_branch call for a branch is issued while a connection
\* returned by connect_to_branch for that branch is still open.
C3_SessionsClosedBeforeDelete ==
    lastDel.branch # "" => ~lastDel.openSession

\* C4: after a create statement has completed, exactly one branch of that id
\* is alive and it is the one this call created, with this call's source,
\* source time and TTL (also when it is the second creation under that id,
\* after the pre-create delete removed the first); and two branches of one
\* id are never alive together.
C4_SecondCreateReplacesFirst ==
    /\ \A r1 \in branches : \A r2 \in branches : r1.id = r2.id => r1 = r2
    /\ (/\ nb \in Scenarios /\ pc = "scenario" /\ cb.pc = "idle"
        /\ ip - 1 \in DOMAIN Prog(nb)
        /\ Prog(nb)[ip - 1].op = "create")
       => /\ lastCreate.id = Prog(nb)[ip - 1].branch
          /\ lastCreate.resp = "ok"
          /\ lastCreate.ttl = Prog(nb)[ip - 1].ttl
          /\ lastCreate.by = created[lastCreate.id]
          /\ {r \in branches : r.id = lastCreate.id}
               = {BranchRecord(lastCreate.id, lastCreate.source,
                               lastCreate.time, lastCreate.ttl,
                               lastCreate.by)}

\* C4 case: recovery-branch just created for the second time, with a later
\* source time than the first, after the pre-create delete removed the first
C4_Witness ==
    /\ nb = "04" /\ pc = "scenario"
    /\ ip - 1 \in DOMAIN Prog(nb)
    /\ Prog(nb)[ip - 1].op = "create"
    /\ lastCreate.id = "recovery-branch"
    /\ lastCreate.by = 2
    /\ lastCreate.time > 1
    /\ preDel["recovery-branch"] = "ok"

\* C5: a pre-create delete that fails for another reason than "not found"
\* ends the run with that failure, so that the create is not attempted.
C5_OnlyNotFoundSwallowed ==
    \A b \in BranchIds :
        preDel[b] \notin {"", "ok", "not_found"}
        => /\ nb = "none"
           /\ err = Error("DeleteFailed", b, 0, preDel[b])

\* C6: connect_to_branch returns an open connection in autocommit mode to
\* the branch's endpoint, together with that endpoint's host and name, or it
\* raises, returns nothing and leaves no connection behind.
C6_ReturnsUsableSessionOrRaises ==
    /\ cb.pc = "returned"
       => /\ cb.conn \in DOMAIN conns
          /\ conns[cb.conn].open
          /\ conns[cb.conn].autocommit
          /\ conns[cb.conn].branch = cb.branch_id
          /\ conns[cb.conn].host = cb.ep.host
          /\ cb.ret = <<cb.conn, cb.ep.host, cb.ep.name>>
    /\ cb.pc = "raised"
       => /\ cb.ret = <<>>
          /\ cb.conn = 0
          /\ cb.error # NoErr
    /\ cb.ret # <<>> => cb.pc = "returned"
    /\ bind["branch_conn"] # 0
       => /\ conns[bind["branch_conn"]].open
          /\ conns[bind["branch_conn"]].autocommit

\* C6 case: a call that returned after waiting for the endpoint
C6_Witness ==
    /\ cb.pc = "returned"
    /\ cb.slept > 0
    /\ conns[cb.conn].open
    /\ conns[cb.conn].autocommit

\* C7: every psycopg2.connect call comes directly after a
\* generate_database_credential call, its password is the token that call
\* minted, and no token is the password of two connections.
C7_FreshCredentialPerConnection ==
    /\ xlog[2] = "connect" => xlog[1] = "mint"
    /\ \A i \in DOMAIN conns :
          /\ conns[i].token = conns[i].mintedAt
          /\ \A j \in DOMAIN conns : i # j => conns[i].token # conns[j].token

\* C7 case: a production connection of setup and two connections of
\* connect_to_branch exist
C7_Witness ==
    /\ Len(conns) >= 3
    /\ \E i \in DOMAIN conns : ~conns[i].helper
    /\ \E i \in DOMAIN conns : \E j \in DOMAIN conns :
          i # j /\ conns[i].helper /\ conns[j].helper

\* C8: no delete_branch call is ever issued whose target is the project's
\* default branch, and a delete_branch attempted on the default branch ends
\* the run in a DefaultBranchProtected error instead of being passed over.
C8_DefaultDeleteEndsInError ==
    /\ ~lastDel.onDefault
    /\ lastDel.onDefault
       => /\ nb = "none"
          /\ err.type = "DefaultBranchProtected"

\* C9: a deletion the service rejects in a teardown step or in the cleanup
\* notebook is raised to the caller, and is reported neither as deleted nor
\* as already cleaned up.
C9_RejectedDeleteSurfaced ==
    (lastDel.kind \in {"teardown", "cleanup"} /\ lastDel.resp = "denied")
    => /\ lastDel.surfaced
       /\ lastDel.reported \notin {"deleted", "already cleaned up"}

\* C10: when the first list_endpoints call of connect_to_branch returns an
\* endpoint, the call goes to the minting statement without sleeping and
\* without listing again, whatever wait_seconds is; it can then only fail in
\* minting or connecting.
C10_NoWaitWhenEndpointPresent ==
    (cb.listings >= 1 /\ ~cb.firstEmpty)
    => /\ cb.slept = 0
       /\ cb.listings = 1
       /\ cb.i = 0
       /\ cb.pc \in {"check", "mint", "connect", "auto", "returned", "raised"}
       /\ cb.pc = "raised"
          => cb.error.type \in {"CredentialError", "ConnectionError"}

\* C10 case: wait_seconds = 0, the first listing had an endpoint and the
\* call is at the minting statement
C10_Witness ==
    /\ cb.pc = "mint"
    /\ cb.wait_seconds = 0
    /\ cb.listings = 1
    /\ ~cb.firstEmpty
    /\ cb.slept = 0

\* C11: create_branch is issued only for an id that is absent,
\* connect_to_branch is called only for a branch whose creation has
\* completed, and a branch that exists is never being created again.
C11_BranchLifecycle ==
    /\ lastCreate.id # "" => lastCreate.resp # "already_exists"
    /\ (nb \in Scenarios /\ cb.pc # "idle")
       => BranchAlive(cb.branch_id) /\ busy[cb.branch_id] = ""
    /\ \A b \in BranchIds : busy[b] = "creating" => ~BranchAlive(b)

\* C13: an operation of the service that is in progress (a create or a
\* delete of a branch, of the project) is the one the program is blocked on
\* in .wait(): the statement that issued it is still the current one, so
\* connect_to_branch is not running and no other call has been started.
C13_OperationsAwaited ==
    \A r \in Resources :
        busy[r] # ""
        => /\ waiting = r
           /\ cb.pc = "idle"
           /\ (nb \in Scenarios /\ pc = "scenario")
              => /\ Cur.branch = r
                 /\ Cur.op \in {"create", "predelete", "delete",
                                "delete_quiet"}
                 /\ busy[r] = "creating" <=> Cur.op = "create"

\* C13 case: Step 5 of notebook 03 is blocked while the service creates
\* feature-order-priority-v2
C13_Witness ==
    /\ nb = "03"
    /\ busy["feature-order-priority-v2"] = "creating"
    /\ waiting = "feature-order-priority-v2"

\* C14: no step of connect_to_branch, from its call to its return or raise,
\* changes the project, the set of branches or the operations of the
\* service, or an endpoint that exists; its external calls are
\* list_endpoints, generate_database_credential and the database connect.
C14_ConnectLeavesServiceUnchanged ==
    [][(cb.pc # "idle" \/ cb.pc' # "idle")
       => /\ UNCHANGED <<projectExists, branches, data, busy, pend>>
          /\ \A b \in BranchIds :
                epCount'[b] # epCount[b]
                => epCount[b] = 0 /\ BranchAlive(b)
          /\ xlog' # xlog
             => xlog'[2] \in {"list_endpoints", "mint", "connect"}]_vars

\* C14 case: a call that listed the endpoints more than once, waited in
\* between and returned a session on the endpoint that appeared meanwhile
C14_Witness ==
    /\ cb.pc = "returned"
    /\ cb.listings > 1
    /\ cb.slept > 0
    /\ epCount[cb.branch_id] > 0
    /\ BranchAlive(cb.branch_id)

\* C17: in a run of the cleanup notebook the delete_branch calls issued so
\* far, followed by the branches not flagged default that are still to be
\* visited, are exactly the listed branches not flagged default, each once
\* and in order, and none of the calls is for the project's default branch;
\* when the loop is over and no call failed, no branch other than the
\* default is left in the project; delete_project is called at most once,
\* only after the loop, and exactly when DELETE_PROJECT is true, which it is
\* not by default.
C17_CleanupDeletesNonDefaultOnly ==
    LET NonDefault(ids) == SelectSeq(ids, LAMBDA b : b \notin cl.flagged) IN
    /\ cl.issued \o NonDefault(cl.todo) = NonDefault(cl.listed)
    /\ \A k \in DOMAIN cl.issued : cl.issued[k] \notin cl.flagged
    /\ lastDel.kind = "cleanup" => ~lastDel.onDefault
    /\ (nb = "99" /\ pc = "cl_end" /\ waiting = "" /\ cl.failed = 0
          /\ projectExists)
       => /\ \A x \in branches : x.default
          /\ DefaultBranches # {}
    /\ cl.projCalls \in {0, 1}
    /\ cl.projCalls = 1 => cl.delete_project /\ cl.todo = <<>> /\ pc # "cl_loop"
    /\ (nb = "99" /\ pc = "cl_end") => (cl.projCalls = 1 <=> cl.delete_project)
    /\ ~DELETE_PROJECT

\* C18: setup reaches create_project only while the project does not exist,
\* a project creation in progress is the one setup is waiting for, the
\* lookup that follows never fails to find the project, and every step of
\* setup after the lookup, and every scenario step, runs with the project
\* present.
C18_ProjectCreatedAtMostOnce ==
    /\ pc = "create_project" => ~projectExists
    /\ busy["project"] = "creating"
       => ~projectExists /\ pc = "wait_project" /\ waiting = "project"
    /\ err.type # "StopIteration"
    /\ pc \in {"list_branches", "su_list", "su_poll", "su_check", "su_mint",
               "su_connect", "su_seed", "su_helper", "scenario"}
       => projectExists

\* C18 case: a second run of setup listed the project that an earlier run
\* created, skipped create_project and found the project in the lookup
C18_Witness ==
    /\ runs = 2
    /\ pc = "list_branches"
    /\ xlog = <<"list_projects", "list_projects">>
    /\ projectExists

\* C15: in Scenario 1, from the completion of the creation of dev-readonly
\* until the insert, the database of dev-readonly equals that of the branch
\* it was created from; after the insert through dev_conn the branch holds
\* one customer more and production holds the seeded customers, which is
\* also what the count through conn returns.
C15_DataIsolation ==
    (nb = "01" /\ pc = "scenario")
    => /\ (ip \in 3..5 /\ waiting = "")
          => /\ BranchAlive("dev-readonly")
             /\ Db("dev-readonly") = Db(lastCreate.source)
       /\ ip >= 6
          => /\ g.vals["branch_count"] = SeedCustomers + 1
             /\ Db(g.prod_branch_name).customers = SeedCustomers
       /\ ip >= 7 => g.vals["main_count"] = SeedCustomers

\* C15 case: Step 4 of notebook 01 has inserted on the branch and counted on
\* both connections
C15_Witness ==
    /\ nb = "01" /\ pc = "scenario" /\ ip = 7
    /\ g.vals["branch_count"] = SeedCustomers + 1
    /\ g.vals["main_count"] = SeedCustomers
    /\ Db("dev-readonly").customers = SeedCustomers + 1

\* C16: in Scenario 4 the contents of production as of safe_timestamp hold
\* before_count customers all through the run, whatever is written to
\* production later, and the count read on recovery-branch is before_count
\* and not the count left by the deletes.
C16_PointInTimeRecovery ==
    (nb = "04" /\ pc = "scenario")
    => /\ ip >= 3
          => /\ g.safe_timestamp > 0
             /\ AsOf(g.prod_branch_name, g.safe_timestamp).customers
                = g.vals["before_count"]
       /\ g.vals["after_count"] # -1
          => g.vals["after_count"] < g.vals["before_count"]
       /\ g.vals["recovery_count"] # -1
          => /\ g.vals["recovery_count"] = g.vals["before_count"]
             /\ g.vals["recovery_count"] # g.vals["after_count"]

\* C16 case: the deletes left 50 customers on production and the count on
\* recovery-branch is the 100 of before
C16_Witness ==
    /\ nb = "04" /\ pc = "scenario"
    /\ g.vals["after_count"] = KeptCustomers
    /\ g.vals["recovery_count"] = SeedCustomers
    /\ Db(g.prod_branch_name).customers = KeptCustomers

\* C19: when no external call has failed, Step 3 of Scenario 5 ends with
\* three results: PR 42 passed, PR 43 failed, PR 44 passed.
C19_PipelineReport ==
    (nb = "05" /\ faults = 0 /\ Len(g.results) = 3)
    => /\ g.results[1].pr = 42 /\ g.results[1].passed
       /\ g.results[2].pr = 43 /\ ~g.results[2].passed
       /\ g.results[3].pr = 44 /\ g.results[3].passed

\* C20: in Scenario 2 production has no loyalty_tier column in any state up
\* to the replay of Step 7, the columns read in Step 6 do not include it,
\* and within the run the column appears on production only by the replay
\* of the migration through conn.
C20_SchemaChangeIsolated ==
    /\ []((nb = "02" /\ pc = "scenario")
          => /\ ip <= 8 => "loyalty_tier" \notin Db(g.prod_branch_name).cols
             /\ "loyalty_tier" \notin g.prod_columns)
    /\ [][(/\ nb = "02" /\ pc = "scenario"
           /\ data'[g.prod_branch_name] # data[g.prod_branch_name])
          => /\ ip = 8
             /\ Cur.sql = "loyalty_migration" /\ Cur.var = "conn"
             /\ "loyalty_tier" \in Db(g.prod_branch_name)'.cols]_vars

\* C20 case: Step 7 has replayed the migration: the feature branch and
\* production both have the column, the columns read in Step 6 do not
C20_Witness ==
    /\ nb = "02" /\ pc = "scenario" /\ ip = 9
    /\ BranchAlive("feature-loyalty-tier")
    /\ "loyalty_tier" \in Db("feature-loyalty-tier").cols
    /\ "loyalty_tier" \in Db(g.prod_branch_name).cols
    /\ "loyalty_tier" \notin g.prod_columns

\* C21: a call of connect_to_branch with wait_seconds = T makes at most
\* 1 + T div 10 listings, has slept 10 seconds before each listing but the
\* first and never more than T in all, lists again only while every listing
\* so far was empty, and for T < 10 makes one listing and does not sleep.
C21_PollingBudget ==
    /\ [](/\ cb.listings <= 1 + cb.wait_seconds \div PollInterval
          /\ cb.slept <= cb.wait_seconds
          /\ IF cb.pc = "raised" /\ cb.error.type = "ServiceError"
             THEN cb.slept <= PollInterval * cb.listings
             ELSE cb.listings > 0
                  => cb.slept = PollInterval * (cb.listings - 1)
          /\ cb.wait_seconds < PollInterval
             => cb.slept = 0 /\ cb.listings <= 1
          /\ (cb.wait_seconds < PollInterval /\ cb.firstEmpty
                /\ cb.pc \notin {"list", "check"})
             => cb.pc = "raised" /\ cb.error.type = "NoEndpoint")
    /\ [][(cb.listings >= 1 /\ cb.listings' > cb.listings)
          => cb.allEmpty /\ cb.listings' = cb.listings + 1]_vars

\* C21 case: with T = 31 every listing was empty: four listings, 30 seconds
\* of sleep, and the call has raised
C21_Witness ==
    /\ cb.wait_seconds = 31
    /\ cb.listings = 4
    /\ cb.slept = 30
    /\ cb.allEmpty
    /\ cb.pc = "raised"
    /\ cb.error.type = "NoEndpoint"

\* C22: within one call of connect_to_branch the credential is minted at
\* most once and the database is connected to at most once; the minting
\* statement is followed by the connect or by the exception, the connect by
\* the return or by the exception, and once an exception has left the helper
\* nothing more is listed, minted or connected: the next step hands the
\* exception to the caller.
C22_MintAndConnectOnce ==
    /\ [](/\ cb.mints <= 1 /\ cb.connects <= 1
          /\ cb.error.type = "CredentialError"
             => cb.pc = "raised" /\ cb.mints = 0 /\ cb.connects = 0
          /\ cb.error.type = "ConnectionError"
             => cb.pc = "raised" /\ cb.mints = 1 /\ cb.connects = 0)
    /\ [][/\ cb.pc = "mint" => cb.pc' \in {"connect", "raised"}
          /\ cb.pc = "connect" => cb.pc' \in {"auto", "raised"}
          /\ cb.pc = "raised"
             => /\ cb' = CbIdle
                /\ err' = cb.error
                /\ UNCHANGED <<minted, conns, xlog, epCount>>]_vars

\* C22 case: the credential was minted and psycopg2.connect raised
C22_Witness ==
    /\ cb.pc = "raised"
    /\ cb.error.type = "ConnectionError"
    /\ cb.mints = 1
    /\ cb.connects = 0
    /\ xlog = <<"mint", "connect">>

\* C23: past the emptiness check the endpoint in use is the first element of
\* the last listing and is an endpoint of the branch asked for; the
\* credential is minted for that endpoint's name, the connection is made to
\* that endpoint's host, and the host and name returned are that endpoint's.
C23_OneEndpointThroughout ==
    /\ cb.pc \in {"mint", "connect", "auto", "returned"}
       => /\ cb.endpoints # <<>>
          /\ cb.ep = cb.endpoints[1]
          /\ cb.ep.name[1] = cb.branch_id
          /\ cb.ep.host[1] = cb.branch_id
    /\ cb.mints = 1 => cb.mintedFor = cb.ep.name
    /\ cb.connects = 1
       => /\ conns[cb.conn].host = cb.ep.host
          /\ conns[cb.conn].branch = cb.branch_id
    /\ cb.pc = "returned"
       => /\ cb.ret = <<cb.conn, cb.ep.host, cb.ep.name>>
          /\ cb.ret[2][1] = cb.branch_id
          /\ cb.ret[3][1] = cb.branch_id
          /\ cb.ret[3] = cb.mintedFor

\* C23 case: a call on dev-readonly, whose listing had two endpoints, has
\* returned
C23_Witness ==
    /\ cb.pc = "returned"
    /\ cb.branch_id = "dev-readonly"
    /\ Len(cb.endpoints) = 2
    /\ cb.mintedFor = cb.endpoints[1].name
    /\ conns[cb.conn].host = cb.endpoints[1].host


\* C24: Scenario 4 deletes child-first (order_items, orders, customers) and
\* restores parent-first (customers, orders, order_items), so no statement
\* of either cell is rejected for a missing or still-referenced parent row:
\* after the disaster cell production holds the 50 kept customers and none
\* of the orders and items of the deleted ones, and after the restore cell
\* it holds them again and final_count equals before_count.
C24_RestoreKeepsReferences ==
    /\ err.type # "ForeignKeyViolation"
    /\ (nb = "04" /\ pc = "scenario" /\ ip >= 5 /\ ip <= 11)
          => LET d == Db(g.prod_branch_name)
             IN /\ ~d.hiItems /\ ~d.hiOrders
                /\ d.customers = KeptCustomers
                /\ g.vals["after_count"] = KeptCustomers
    /\ (nb = "04" /\ pc = "scenario" /\ ip >= 12)
          => LET d == Db(g.prod_branch_name)
             IN /\ d.hiOrders = g.deleted_orders
                /\ d.hiItems = g.deleted_items
                /\ d.hiOrders /\ d.hiItems
                /\ d.customers = g.vals["before_count"]
    /\ (nb = "04" /\ g.vals["final_count"] # -1)
          => /\ g.vals["final_count"] = g.vals["before_count"]
             /\ g.vals["final_count"] = SeedCustomers

\* C24 witness: Scenario 4 has run its disaster and its restore and has
\* counted 100 customers in production again, 50 of them restored from the
\* recovery branch together with their orders and items
C24_Witness ==
    /\ nb = "04" /\ pc = "scenario" /\ ip = 13
    /\ g.vals["after_count"] = KeptCustomers
    /\ g.vals["deleted_customers"] = SeedCustomers - KeptCustomers
    /\ g.deleted_orders /\ g.deleted_items
    /\ g.vals["final_count"] = SeedCustomers
    /\ g.vals["before_count"] = SeedCustomers
    /\ Db(g.prod_branch_name).hiItems

\* C25: no version of feature-order-priority has the email_verified column;
\* in Scenario 3, feature-order-priority-v2 is created from production after
\* email_verified was added there and has it from its first version, and has
\* priority as well once the migration was replayed on it; once the
\* migration was replayed on production, production has both columns.
C25_RebaseOnLatestProduction ==
    /\ \A k \in DOMAIN data["feature-order-priority"] :
          "email_verified" \notin data["feature-order-priority"][k].d.cols
    /\ (nb = "03" /\ pc = "scenario" /\ ip >= 11)
          => /\ lastCreate.id = "feature-order-priority-v2"
             /\ lastCreate.source = g.prod_branch_name
             /\ lastCreate.time = 0
             /\ \A k \in DOMAIN data["feature-order-priority-v2"] :
                   "email_verified"
                       \in data["feature-order-priority-v2"][k].d.cols
             /\ data["feature-order-priority-v2"] # <<>>
    /\ (nb = "03" /\ pc = "scenario" /\ ip >= 13)
          => {"email_verified", "priority"}
                 \subseteq Db("feature-order-priority-v2").cols
    /\ (nb = "03" /\ pc = "scenario" /\ ip >= 8)
          => "email_verified" \in Db(g.prod_branch_name).cols
    /\ (nb = "03" /\ pc = "scenario" /\ ip >= 15)
          => {"email_verified", "priority"}
                 \subseteq Db(g.prod_branch_name).cols

\* C25 witness: Scenario 3 has replayed the migration on production: the
\* first feature branch has priority only, the second and production have
\* both columns
C25_Witness ==
    /\ nb = "03" /\ pc = "scenario" /\ ip = 15
    /\ BranchAlive("feature-order-priority")
    /\ Db("feature-order-priority").cols = {"priority"}
    /\ BranchAlive("feature-order-priority-v2")
    /\ Db("feature-order-priority-v2").cols = {"email_verified", "priority"}
    /\ Db(g.prod_branch_name).cols = {"email_verified", "priority"}

\* C26: every create_branch issued by a scenario names as its source the
\* default branch resolved by the setup (prod_branch_name), and that branch
\* exists when the call is made.
C26_SourceIsDefaultBranch ==
    lastCreate.id # ""
        => /\ lastCreate.source = g.prod_branch_name
           /\ lastCreate.resp # "not_found"

\* C27: the teardown of Scenario 4 (and of Scenarios 2 and 3 when their
\* cleanup cell is enabled) removes the branch through delete_branch_safe, a
\* helper that is defined when it is called: the step that leaves a
\* delete_branch_safe(b) call has issued delete_branch for b and has not
\* raised a NameError, whether the error is propagated or caught.
C27_TeardownDeletesBranch ==
    [][(/\ AtOp("delete_safe")
        /\ <<nb, pc, ip>>' # <<nb, pc, ip>>)
       => /\ xlog'[2] = "delete_branch"
          /\ err'.type # "NameError"
          /\ \/ ~BranchAlive(Cur.branch)
             \/ busy'[Cur.branch] = "deleting"
             \/ lastDel'.branch = Cur.branch]_vars

\* the first instruction of Step 3 of Scenario 5 and the length of one round
Step3First == Len(CiCreate(42)) * Len(PrNumbers) + 1
RoundLen == Len(CiTest(42))
Step3Last == Step3First + RoundLen * Len(PrNumbers) - 1

\* C28: Step 3 of Scenario 5 appends exactly one result per pull request, in
\* the order of PULL_REQUESTS, whether its connect, migration and test
\* succeed or raise: the results are those of the rounds finished so far, no
\* step of Step 3 ends the run with an error, and past Step 3 there are
\* three results and passed_count + failed_count is the number of PRs.
C28_OneResultPerPullRequest ==
    /\ []((nb = "05" /\ pc = "scenario")
          => /\ \A k \in DOMAIN g.results :
                   k <= Len(PrNumbers) /\ g.results[k].pr = PrNumbers[k]
             /\ ip < Step3First => g.results = <<>>
             /\ (ip >= Step3First /\ ip <= Step3Last)
                  => LET round == ((ip - Step3First) \div RoundLen) + 1
                         at == ((ip - Step3First) % RoundLen) + 1
                     IN Len(g.results) =
                          IF CiTest(42)[at].op \in {"close", "jump"}
                          THEN round ELSE round - 1
             /\ ip > Step3Last
                  => /\ Len(g.results) = Len(PrNumbers)
                     /\ PassedCount + FailedCount = Len(PrNumbers))
    /\ [][(nb = "05" /\ pc = "scenario" /\ cb.pc \in {"idle", "raised"}
              /\ ip >= Step3First /\ ip <= Step3Last)
           => /\ err' = err
              /\ nb' = nb /\ pc' = pc
              /\ Len(g.results') <= Len(g.results) + 1]_vars

\* C28 witness: Step 3 is over; the round of PR 42 raised, the round of PR 43
\* after it ran its test without an error, the round of PR 44 raised
C28_Witness ==
    /\ nb = "05" /\ pc = "scenario" /\ ip = Step3Last + 1
    /\ Len(g.results) = 3
    /\ g.results[1].error /\ ~g.results[1].passed
    /\ ~g.results[2].error
    /\ g.results[3].error
    /\ PassedCount = 1 /\ FailedCount = 2

====
